---- MODULE Spec2Model ----
(***************************************************************************)
(* Releaseboard: the changelog aggregation engine.                         *)
(*                                                                         *)
(* getUnifiedChangelog fans out over the enabled sources of a page, merges *)
(* what the provider adapters return, and serves the result from a         *)
(* process-wide cache map backed by the snapshot rows of the SQLite store. *)
(* A call is one run: it starts synchronously (cache check, snapshot read, *)
(* source listing, adapter fan-out), suspends at Promise.all, and resumes  *)
(* once every adapter has settled.  Runs of several requests interleave at *)
(* that suspension point.                                                  *)
(*                                                                         *)
(* Strings that the code concatenates with ":" are sequences of segments;  *)
(* ISO date strings are records holding the instant in milliseconds; the   *)
(* JavaScript null is Null (or the NullStr sentinel for nullable strings). *)
(***************************************************************************)
EXTENDS Integers, Sequences, FiniteSets, TLC

VARIABLES
    now,            \* Date.now(), in milliseconds
    cache,          \* the module-level Map of changelog.ts: pageId -> entry
    snapshots,      \* table changelog_snapshots: page_id -> row
    repo_sources,   \* table repo_sources: id -> row
    runs,           \* the getUnifiedChangelog calls, one record per call slot
    lastReturn,     \* history: per page, what the latest call returned
    boots,          \* history: number of process restarts so far
    calls,          \* history: number of getUnifiedChangelog calls so far
    client,         \* one fetchWithRetry call: its locals and what it has done so far
    probe,          \* one adapter call on its own: the source, the answers, the result
    exchange,       \* the HTTP request at a route handler, and its status once answered
    refreshed,      \* history: when the admin last refreshed the cache, and the calls until then
    changelog_pages \* table changelog_pages: id -> row

vars == <<now, cache, snapshots, repo_sources, runs, lastReturn, boots, calls, client, probe, exchange,
         refreshed, changelog_pages>>

----------------------------------------------------------------------------
(* Bounds of the model *)

MaxTicks == 3
MaxBoots == 1
MaxCalls == 2
MaxRetries == 2

----------------------------------------------------------------------------
(* Values *)

Null == [null |-> TRUE]
NullStr == "<null>"

Iso(ms) == [tag |-> "iso", ms |-> ms]
NullDate == [tag |-> "null", ms |-> 0]
InvalidDate == [tag |-> "invalid", ms |-> 0]

\* x ?? new Date(0).toISOString()
OrEpoch(d) == IF d.tag = "null" THEN Iso(0) ELSE d

\* Boolean(s) of a string or null
Truthy(s) == s # NullStr /\ s # ""

\* new Date(s).getTime() of a date string the model produces (always valid)
getTime(s) == s.ms

CACHE_WINDOW_MS == 1000 * 60 * 3

\* the clock of the model advances by whole minutes
TickMs == 1000 * 60

DEFAULT_CHANGELOG_PAGE_ID == "page_default"

Pages == {DEFAULT_CHANGELOG_PAGE_ID, "page_infra"}

DEFAULT_CHANGELOG_PATH_NAME == "changelog"

\* the id randomUUID() gives to a page created later
FreshPages == {"page_docs"}

PageIds == Pages \cup FreshPages

InitialPages ==
    [p \in PageIds |-> IF p = DEFAULT_CHANGELOG_PAGE_ID
                       THEN [id |-> p, pathName |-> DEFAULT_CHANGELOG_PATH_NAME]
                       ELSE IF p \in Pages THEN [id |-> p, pathName |-> "infra"]
                       ELSE Null]

SourceIds == {"s1", "s2", "s3", "s4"}

\* the id randomUUID() gives to a source created later
FreshIds == {"s5"}

AllIds == SourceIds \cup FreshIds

\* ORDER BY display_name ASC over the rows of the model
ByDisplayName == <<"s1", "s2", "s3", "s4", "s5">>

InitialSources ==
    [s \in AllIds |->
        CASE s \in FreshIds -> Null
          [] s = "s1" -> [id |-> "s1", pageId |-> DEFAULT_CHANGELOG_PAGE_ID, provider |-> "github",
                          baseUrl |-> <<>>, enabled |-> TRUE]
          [] s = "s2" -> [id |-> "s2", pageId |-> DEFAULT_CHANGELOG_PAGE_ID, provider |-> "gitlab",
                          baseUrl |-> <<>>, enabled |-> TRUE]
          [] s = "s3" -> [id |-> "s3", pageId |-> DEFAULT_CHANGELOG_PAGE_ID, provider |-> "gitea",
                          baseUrl |-> <<>>, enabled |-> FALSE]
          [] OTHER    -> [id |-> "s4", pageId |-> "page_infra", provider |-> "bitbucket",
                          baseUrl |-> <<>>, enabled |-> TRUE]]

----------------------------------------------------------------------------
(* Provider adapters (github.ts).  An adapter sees the final outcome of    *)
(* fetchWithRetry for its primary request and for its commit fallback:     *)
(* either the call threw, or it returned a Response.                       *)

Response(status, detail, parseable, json) ==
    [threw |-> FALSE, status |-> status, detail |-> detail, parseable |-> parseable, json |-> json]

NetworkFailure == [threw |-> TRUE, status |-> 0, detail |-> "fetch failed", parseable |-> FALSE, json |-> <<>>]

ResponseOk(r) == r.status >= 200 /\ r.status <= 299

\* what an adapter call ends with: a resolved {releases, error} or a rejection
\* (requests: the requests the adapter has issued through fetchWithRetry, in order)
Resolved(releases, error) ==
    [threw |-> FALSE, releases |-> releases, error |-> error, requests |-> <<>>]

Rejected == [threw |-> TRUE, releases |-> <<>>, error |-> Null, requests |-> <<>>]

\* the result of what follows the given requests
After(requests, result) == [result EXCEPT !.requests = requests \o @]

NetworkError(resp) == [kind |-> "network", label |-> "", status |-> 0, detail |-> resp.detail]

Capitalize(provider) ==
    CASE provider = "github" -> "Github"
      [] provider = "gitlab" -> "Gitlab"
      [] provider = "gitea" -> "Gitea"
      [] OTHER -> "Bitbucket"

\* String.prototype.slice(start, end) for 0 <= start <= end
slice(str, start, end) == SubSeq(str, start + 1, IF end < Len(str) THEN end ELSE Len(str))

WhiteSpace == {" ", "\t", "\n", "\r"}

RECURSIVE trimStart(_)
trimStart(str) ==
    IF str # "" /\ SubSeq(str, 1, 1) \in WhiteSpace
    THEN trimStart(SubSeq(str, 2, Len(str)))
    ELSE str

RECURSIVE trimEnd(_)
trimEnd(str) ==
    IF str # "" /\ SubSeq(str, Len(str), Len(str)) \in WhiteSpace
    THEN trimEnd(SubSeq(str, 1, Len(str) - 1))
    ELSE str

\* String.prototype.trim
trim(str) == trimEnd(trimStart(str))

\* the two templates of the message: kind "api" is "<label> API <status>: <detail>",
\* kind "apiReturned" is "<label> API returned <status>"
ApiError(kind, label, status, detail) ==
    [kind |-> kind, label |-> label, status |-> status, detail |-> detail]

\* mutant: the body is not cut to 140 characters
formatApiError_WholeBody(provider, status, detail) ==
    LET label == Capitalize(provider)
        statusMessage == trim(detail)
    IN IF statusMessage # ""
       THEN ApiError("api", label, status, statusMessage)
       ELSE ApiError("apiReturned", label, status, "")

formatApiError(provider, status, detail) ==
    LET label == Capitalize(provider)
        statusMessage == trim(slice(detail, 0, 140))
    IN IF statusMessage # ""
       THEN ApiError("api", label, status, statusMessage)
       ELSE ApiError("apiReturned", label, status, "")

buildReleaseId(sourceId, releaseId) == <<sourceId>> \o releaseId

\* mutant: the source id is left out of a commit's id
buildCommitId_NoSource(sourceId, sha) == <<"commit">> \o sha

buildCommitId(sourceId, sha) == <<sourceId, "commit">> \o sha

\* Array.prototype.map
MapSeq(Op(_), s) == [i \in 1..Len(s) |-> Op(s[i])]

mapGitHubCommitsToEntries(source, commits) ==
    LET entry(commit) ==
            [id |-> buildCommitId(source.id, commit.sha),
             sourceId |-> source.id,
             kind |-> "commit",
             name |-> IF commit.message # "" THEN commit.message ELSE "Commit",
             publishedAt |-> OrEpoch(commit.date)]
    IN MapSeq(entry, commits)

mapGitLabCommitsToEntries(source, commits) ==
    LET entry(commit) ==
            [id |-> buildCommitId(source.id, commit.sha),
             sourceId |-> source.id,
             kind |-> "commit",
             name |-> IF Truthy(commit.title) THEN commit.title
                      ELSE IF commit.message # "" THEN commit.message ELSE "Commit",
             publishedAt |-> OrEpoch(commit.date)]
    IN MapSeq(entry, commits)

mapBitbucketCommitsToEntries(source, commits) ==
    LET entry(commit) ==
            [id |-> buildCommitId(source.id, commit.sha),
             sourceId |-> source.id,
             kind |-> "commit",
             name |-> IF commit.message # "" THEN commit.message ELSE "Commit",
             publishedAt |-> OrEpoch(commit.date)]
    IN MapSeq(entry, commits)

\* authorTimestamp is a number of milliseconds; 0 or absent is falsy
mapBitbucketServerCommitsToEntries(source, commits) ==
    LET entry(commit) ==
            [id |-> buildCommitId(source.id, commit.sha),
             sourceId |-> source.id,
             kind |-> "commit",
             name |-> IF commit.message # "" THEN commit.message ELSE "Commit",
             publishedAt |-> IF commit.authorTimestamp # 0 THEN Iso(commit.authorTimestamp) ELSE Iso(0)]
    IN MapSeq(entry, commits)

\* one commit request: fetchGitHubCommitFallback, fetchGitLabCommitFallback,
\* fetchGiteaCommitFallback differ in the URL and the mapper only
CommitRequest(source, resp, Mapper(_, _)) ==
    After(<<"commits">>,
          IF resp.threw THEN Resolved(<<>>, NetworkError(resp))
          ELSE IF ~ResponseOk(resp)
               THEN Resolved(<<>>, formatApiError(source.provider, resp.status, resp.detail))
          ELSE IF ~resp.parseable THEN Rejected
          ELSE Resolved(Mapper(source, resp.json), Null))

\* mutant: the exception of the retry client is not caught
fetchGitHubCommitFallback_Rethrows(source, resp) ==
    IF resp.threw THEN After(<<"commits">>, Rejected)
    ELSE CommitRequest(source, resp, mapGitHubCommitsToEntries)

fetchGitHubCommitFallback(source, resp) == CommitRequest(source, resp, mapGitHubCommitsToEntries)

fetchGitLabCommitFallback(source, resp) == CommitRequest(source, resp, mapGitLabCommitsToEntries)

fetchGiteaCommitFallback(source, resp) == CommitRequest(source, resp, mapGitHubCommitsToEntries)

\* A URL is the sequence of its host and path segments; <<>> is no baseUrl.
Includes(url, host) == \E i \in 1..Len(url) : url[i] = host

EndsWith(url, suffix) ==
    /\ Len(url) >= Len(suffix)
    /\ SubSeq(url, Len(url) - Len(suffix) + 1, Len(url)) = suffix

\* the version strings of the model that match \d+\.\d+
VersionSegments == {"1.0", "2.0"}

\* mutant: no base is recognised as a Bitbucket Server base
isBitbucketServerApiBase_Never(apiBase) == FALSE

isBitbucketServerApiBase(apiBase) ==
    /\ Len(apiBase) >= 4
    /\ apiBase[Len(apiBase) - 2] = "rest"
    /\ apiBase[Len(apiBase) - 1] = "api"
    /\ apiBase[Len(apiBase)] \in VersionSegments

inferApiBaseUrl(source) ==
    LET configuredBase == source.baseUrl
    IN IF source.provider = "github"
       THEN IF configuredBase = <<>> THEN <<"api.github.com">>
            ELSE IF configuredBase = <<"github.com">> THEN <<"api.github.com">>
            ELSE IF Includes(configuredBase, "api.github.com") THEN <<"api.github.com">>
            ELSE IF EndsWith(configuredBase, <<"api", "v3">>) THEN configuredBase
            ELSE configuredBase \o <<"api", "v3">>
       ELSE IF source.provider = "gitlab"
       THEN LET base == IF configuredBase = <<>> THEN <<"gitlab.com">> ELSE configuredBase
            IN IF EndsWith(base, <<"api", "v4">>) THEN base ELSE base \o <<"api", "v4">>
       ELSE IF source.provider = "gitea"
       THEN LET base == IF configuredBase = <<>> THEN <<"gitea.com">> ELSE configuredBase
            IN IF EndsWith(base, <<"api", "v1">>) THEN base ELSE base \o <<"api", "v1">>
       ELSE IF configuredBase = <<>> THEN <<"api.bitbucket.org", "2.0">>
       ELSE IF Includes(configuredBase, "api.bitbucket.org")
            THEN IF EndsWith(configuredBase, <<"2.0">>) THEN configuredBase
                 ELSE configuredBase \o <<"2.0">>
       ELSE IF isBitbucketServerApiBase(configuredBase) THEN configuredBase
       ELSE IF Includes(configuredBase, "bitbucket.org") THEN <<"api.bitbucket.org", "2.0">>
       ELSE configuredBase \o <<"rest", "api", "1.0">>

\* the URL of the one request of the Bitbucket adapter: its path and the name of its
\* page-size parameter
bitbucketCommitsUrl(source) ==
    LET apiBase == inferApiBaseUrl(source)
        useServerApi == isBitbucketServerApiBase(apiBase)
    IN [path |-> IF useServerApi
                 THEN apiBase \o <<"projects", "{owner}", "repos", "{repo}", "commits">>
                 ELSE apiBase \o <<"repositories", "{owner}", "{repo}", "commits">>,
        searchParams |-> IF useServerApi THEN {"limit"} ELSE {"pagelen"}]

fetchBitbucketCommitFallback(source, resp) ==
    IF isBitbucketServerApiBase(inferApiBaseUrl(source))
    THEN CommitRequest(source, resp, mapBitbucketServerCommitsToEntries)
    ELSE CommitRequest(source, resp, mapBitbucketCommitsToEntries)

\* the releases of a 2xx body: filter the usable records, then map them
UsableRelease(release) ==
    release.published_at.tag # "null" \/ Truthy(release.name) \/ Truthy(release.tag_name)

MapReleases(source, payload, IdOf(_)) ==
    LET entry(release) ==
            [id |-> buildReleaseId(source.id, IdOf(release)),
             sourceId |-> source.id,
             kind |-> "release",
             name |-> IF release.name # NullStr THEN release.name ELSE release.tag_name,
             publishedAt |-> OrEpoch(release.published_at)]
    IN MapSeq(entry, SelectSeq(payload, UsableRelease))

\* the shared shape of fetchGitHubSource, fetchGitLabSource, fetchGiteaSource
ReleasesRequest(source, up, RateLimitStop(_), Fallback(_, _), IdOf(_)) ==
    LET commitFallback == Fallback(source, up.fallback)
        afterFallback(releases, error) ==
            After(commitFallback.requests,
                  IF commitFallback.threw THEN Rejected
                  ELSE IF Len(commitFallback.releases) > 0 THEN Resolved(commitFallback.releases, Null)
                  ELSE Resolved(releases, error))
    IN After(<<"releases">>,
             IF up.primary.threw THEN Resolved(<<>>, NetworkError(up.primary))
             ELSE IF ~ResponseOk(up.primary)
                  THEN LET releaseError == formatApiError(source.provider, up.primary.status,
                                                          up.primary.detail)
                       IN IF RateLimitStop(up.primary) THEN Resolved(<<>>, releaseError)
                          ELSE afterFallback(<<>>, IF commitFallback.error # Null
                                                   THEN commitFallback.error
                                                   ELSE releaseError)
             ELSE IF ~up.primary.parseable THEN Rejected
             ELSE LET releases == MapReleases(source, up.primary.json, IdOf)
                  IN IF Len(releases) = 0
                     THEN afterFallback(<<>>, commitFallback.error)
                     ELSE Resolved(releases, Null))

NativeId(release) == release.id

TagName(release) == <<release.tag_name>>

GitHubRateLimitStop(resp) == resp.status = 403 /\ resp.detail = "API rate limit exceeded"

TooManyRequestsStop(resp) == resp.status = 429

\* mutant: the error of the releases request is kept when the commit fallback has commits
fetchGitHubSource_KeepsReleaseError(source, up) ==
    LET result == ReleasesRequest(source, up, GitHubRateLimitStop, fetchGitHubCommitFallback, NativeId)
    IN IF ~up.primary.threw /\ ~ResponseOk(up.primary) /\ ~result.threw /\ result.error = Null
       THEN [result EXCEPT !.error = formatApiError(source.provider, up.primary.status,
                                                     up.primary.detail)]
       ELSE result

fetchGitHubSource(source, up) ==
    ReleasesRequest(source, up, GitHubRateLimitStop, fetchGitHubCommitFallback, NativeId)

\* mutant: after a failed releases request the error is the one of the commit fallback,
\* also when that is null
fetchGitLabSource_FallbackErrorOnly(source, up) ==
    LET result == ReleasesRequest(source, up, TooManyRequestsStop, fetchGitLabCommitFallback, TagName)
        commitFallback == fetchGitLabCommitFallback(source, up.fallback)
    IN IF ~result.threw /\ Len(result.requests) = 2 /\ result.releases = <<>>
       THEN [result EXCEPT !.error = commitFallback.error]
       ELSE result

fetchGitLabSource(source, up) ==
    ReleasesRequest(source, up, TooManyRequestsStop, fetchGitLabCommitFallback, TagName)

fetchGiteaSource(source, up) ==
    ReleasesRequest(source, up, TooManyRequestsStop, fetchGiteaCommitFallback, NativeId)

fetchReleasesForSource(source, up) ==
    IF source.provider = "github" THEN fetchGitHubSource(source, up)
    ELSE IF source.provider = "gitlab" THEN fetchGitLabSource(source, up)
    ELSE IF source.provider = "gitea" THEN fetchGiteaSource(source, up)
    ELSE fetchBitbucketCommitFallback(source, up.primary)

----------------------------------------------------------------------------
(* What the upstream APIs answer in the model *)

GitHubReleases ==
    <<[id |-> <<"101">>, tag_name |-> "v2", name |-> NullStr, published_at |-> Iso(120000)],
      [id |-> <<"100">>, tag_name |-> "v1", name |-> "First", published_at |-> NullDate]>>

GitLabReleases ==
    <<[tag_name |-> "r2", name |-> "Second", published_at |-> Iso(120000)],
      [tag_name |-> "r1", name |-> NullStr, published_at |-> Iso(60000)]>>

Commits ==
    <<[sha |-> <<"abc1234">>, title |-> NullStr, message |-> "Fix bug", date |-> Iso(60000),
       authorTimestamp |-> 60000],
      [sha |-> <<"def5678">>, title |-> "Init", message |-> "", date |-> NullDate,
       authorTimestamp |-> 0]>>

Up(primary, fallback) == [primary |-> primary, fallback |-> fallback]

\* the answers a source of the model may get for one fetch
Scenarios(source) ==
    LET releases == IF source.provider = "gitlab" THEN GitLabReleases ELSE GitHubReleases
        serverError == Response(500, "", TRUE, <<>>)
        malformed == Response(200, "<html>", FALSE, <<>>)
    IN IF source.provider = "github"
       THEN {Up(Response(200, "", TRUE, releases), NetworkFailure),
             Up(NetworkFailure, NetworkFailure),
             Up(malformed, NetworkFailure)}
       ELSE IF source.provider = "bitbucket"
       THEN {Up(Response(200, "", TRUE, Commits), NetworkFailure),
             Up(serverError, NetworkFailure)}
       ELSE {Up(Response(200, "", TRUE, releases), NetworkFailure),
             Up(serverError, serverError)}

----------------------------------------------------------------------------
(* The snapshot store (db.ts) *)

JSONstringify(payload) == [parses |-> TRUE, value |-> payload]

Row(payload) == [fetched_at |-> payload.fetchedAt, payload_json |-> JSONstringify(payload)]

getChangelogSnapshot(pageId) ==
    LET row == snapshots[pageId]
    IN IF row = Null THEN Null
       ELSE IF ~row.payload_json.parses THEN Null
       ELSE LET parsed == row.payload_json.value
            IN [fetchedAt |-> IF parsed.fetchedAt.tag # "null" THEN parsed.fetchedAt ELSE row.fetched_at,
                releases |-> parsed.releases,
                errors |-> parsed.errors]

saveChangelogSnapshot(pageId, payload) ==
    snapshots' = [snapshots EXCEPT ![pageId] = Row(payload)]

\* mutant: the enabled flag is not looked at
listEnabledRepoSourcesWithTokens_AnyState(pageId) ==
    LET ids == SelectSeq(ByDisplayName,
                         LAMBDA s : repo_sources[s] # Null /\ repo_sources[s].pageId = pageId)
    IN [i \in 1..Len(ids) |-> repo_sources[ids[i]]]

\* db.ts lines 456-462
listEnabledRepoSourcesWithTokens(pageId) ==
    LET ids == SelectSeq(ByDisplayName,
                         LAMBDA s : /\ repo_sources[s] # Null
                                    /\ repo_sources[s].enabled
                                    /\ repo_sources[s].pageId = pageId)
    IN [i \in 1..Len(ids) |-> repo_sources[ids[i]]]

----------------------------------------------------------------------------
(* The orchestrator (changelog.ts) *)

Runs == {"r1", "r2"}

Pending == [threw |-> FALSE, releases |-> <<>>, error |-> Null, pending |-> TRUE]

Settled(result) == [threw |-> FALSE, releases |-> result.releases, error |-> result.error, pending |-> FALSE]

NoEffects == [listed |-> FALSE, invoked |-> {}, snapshotRead |-> FALSE, saved |-> FALSE, cacheSet |-> FALSE]

\* the requests of one adapter call: which fetchWithRetry call it is in (the releases request,
\* or the commit fallback), the attempt counter of that call, the HTTP requests sent so far,
\* whether one is awaiting its answer and whether that one will never be answered
IdleUpstream ==
    [phase |-> "primary", attempt |-> 0, requests |-> 0, inflight |-> FALSE, hung |-> FALSE,
     primary |-> Null]

IdleRun ==
    [pc |-> "idle", pageId |-> DEFAULT_CHANGELOG_PAGE_ID, forceRefresh |-> FALSE,
     persistedSnapshot |-> Null, sources |-> <<>>, results |-> <<>>, errors |-> <<>>,
     ret |-> Null, path |-> "none", fx |-> NoEffects,
     upstream |-> [id \in AllIds |-> IdleUpstream]]

\* mutant: the expiry test the wrong way round
CacheHit_Reversed(shouldUseCache, cached) ==
    shouldUseCache /\ cached # Null /\ cached.until < now

\* mutant: forceRefresh does not bypass the cache
CacheHit_IgnoresForce(shouldUseCache, cached) ==
    cached # Null /\ now < cached.until

\* line 186: shouldUseCache && cached && Date.now() < cached.until
CacheHit(shouldUseCache, cached) ==
    shouldUseCache /\ cached # Null /\ now < cached.until

\* mutant: no lower bound on the age
SnapshotFresh_NoLowerBound(shouldUseCache, persistedSnapshot) ==
    /\ shouldUseCache
    /\ persistedSnapshot # Null
    /\ persistedSnapshot.fetchedAt.tag = "iso"
    /\ now - getTime(persistedSnapshot.fetchedAt) < CACHE_WINDOW_MS

\* lines 191-193: the snapshot is young enough to be promoted (a NaN age fails both tests)
SnapshotFresh(shouldUseCache, persistedSnapshot) ==
    /\ shouldUseCache
    /\ persistedSnapshot # Null
    /\ persistedSnapshot.fetchedAt.tag = "iso"
    /\ now - getTime(persistedSnapshot.fetchedAt) >= 0
    /\ now - getTime(persistedSnapshot.fetchedAt) < CACHE_WINDOW_MS

\* mutant: oldest first
compareReleases_Ascending(a, b) == getTime(a.publishedAt) - getTime(b.publishedAt)

\* the comparator of line 221
compareReleases(a, b) == getTime(b.publishedAt) - getTime(a.publishedAt)

\* Array.prototype.sort is stable: an element goes behind every one that does not sort after it
RECURSIVE Insert(_, _)
Insert(sorted, e) ==
    IF sorted = <<>> THEN <<e>>
    ELSE IF compareReleases(Head(sorted), e) > 0 THEN <<e>> \o sorted
    ELSE <<Head(sorted)>> \o Insert(Tail(sorted), e)

RECURSIVE SortReleases(_)
SortReleases(list) ==
    IF list = <<>> THEN <<>>
    ELSE Insert(SortReleases(SubSeq(list, 1, Len(list) - 1)), list[Len(list)])

\* results.flat()
RECURSIVE Flat(_)
Flat(results) == IF results = <<>> THEN <<>> ELSE Head(results).releases \o Flat(Tail(results))

\* mutant: an empty result degrades to the snapshot also when no source reported an error
ShouldDegrade_WithoutErrors(payload, persistedSnapshot) ==
    /\ Len(payload.releases) = 0
    /\ persistedSnapshot # Null
    /\ Len(persistedSnapshot.releases) > 0

\* line 230
ShouldDegrade(payload, persistedSnapshot) ==
    /\ Len(payload.releases) = 0
    /\ Len(payload.errors) > 0
    /\ persistedSnapshot # Null
    /\ Len(persistedSnapshot.releases) > 0

Entry(payload) == [until |-> now + CACHE_WINDOW_MS, payload |-> payload]

\* no call has just ended and no request is at a route handler: a request is handled, and
\* the caller of an ended call takes its result, before anything else
Quiet == exchange = Null /\ \A r \in Runs : runs[r].pc \in {"idle", "fetching"}

Returned(run, payload, path, fx) ==
    [run EXCEPT !.pc = "returned", !.ret = payload, !.path = path, !.fx = fx]

\* lines 181-218: the synchronous start of a call, up to the await of Promise.all
getUnifiedChangelog(r, pageId, forceRefresh) ==
    LET shouldUseCache == ~forceRefresh
        cached == cache[pageId]
        persistedSnapshot == getChangelogSnapshot(pageId)
        sources == listEnabledRepoSourcesWithTokens(pageId)
        run == [IdleRun EXCEPT !.pageId = pageId, !.forceRefresh = forceRefresh]
    IN /\ calls' = calls + 1
       /\ IF CacheHit(shouldUseCache, cached)
          THEN /\ runs' = [runs EXCEPT ![r] = Returned(run, cached.payload, "hit", NoEffects)]
               /\ lastReturn' = [lastReturn EXCEPT ![pageId] = cached]
               /\ UNCHANGED cache
          ELSE IF SnapshotFresh(shouldUseCache, persistedSnapshot)
          THEN /\ cache' = [cache EXCEPT ![pageId] = Entry(persistedSnapshot)]
               /\ runs' = [runs EXCEPT ![r] =
                              Returned(run, persistedSnapshot, "promoted",
                                       [NoEffects EXCEPT !.snapshotRead = TRUE, !.cacheSet = TRUE])]
               /\ lastReturn' = [lastReturn EXCEPT ![pageId] = Entry(persistedSnapshot)]
          ELSE /\ runs' = [runs EXCEPT ![r] =
                              [run EXCEPT !.pc = "fetching",
                                          !.persistedSnapshot = persistedSnapshot,
                                          !.sources = sources,
                                          !.results = [i \in 1..Len(sources) |-> Pending],
                                          !.fx = [NoEffects EXCEPT
                                                     !.snapshotRead = TRUE,
                                                     !.listed = TRUE,
                                                     !.invoked = {sources[i].id : i \in 1..Len(sources)}]]]
               /\ UNCHANGED <<cache, lastReturn>>
       /\ UNCHANGED <<now, snapshots, repo_sources, boots, client, probe, refreshed, changelog_pages>>

\* a caller inside the process calls getUnifiedChangelog; call slot r2 is used only
\* while r1 is aggregating
Start(r, pageId, forceRefresh) ==
    /\ runs[r].pc = "idle"
    /\ Quiet
    /\ r = "r2" => runs["r1"].pc = "fetching"
    /\ calls < MaxCalls
    /\ getUnifiedChangelog(r, pageId, forceRefresh)
    /\ UNCHANGED exchange

\* lines 206-217: the adapter of one source settles; a rejection rejects Promise.all
\* and with it the call
Settle(r, i) ==
    /\ Quiet
    /\ runs[r].pc = "fetching"
    /\ i \in 1..Len(runs[r].sources)
    /\ runs[r].results[i].pending
    /\ \E up \in Scenarios(runs[r].sources[i]) :
          LET source == runs[r].sources[i]
              result == fetchReleasesForSource(source, up)
          IN runs' = [runs EXCEPT ![r] =
                         IF result.threw
                         THEN [@ EXCEPT !.pc = "threw", !.path = "threw"]
                         ELSE [@ EXCEPT !.results[i] = Settled(result),
                                        !.errors = IF result.error # Null
                                                   THEN Append(@, [sourceId |-> source.id,
                                                                   message |-> result.error])
                                                   ELSE @]]
    /\ UNCHANGED <<now, cache, snapshots, repo_sources, lastReturn, boots, calls, client, probe, exchange, refreshed, changelog_pages>>

\* mutant: the errors of the run are not put into the fallback payload
FallbackPayload_KeepsErrors(persistedSnapshot, payload) == persistedSnapshot

\* lines 231-234
FallbackPayload(persistedSnapshot, payload) == [persistedSnapshot EXCEPT !.errors = payload.errors]

\* mutant: the fallback payload is persisted too
Degrade_AlsoSaves(r, fallbackPayload) ==
    /\ cache' = [cache EXCEPT ![runs[r].pageId] = Entry(fallbackPayload)]
    /\ runs' = [runs EXCEPT ![r] =
                   Returned(@, fallbackPayload, "degraded", [@.fx EXCEPT !.cacheSet = TRUE])]
    /\ lastReturn' = [lastReturn EXCEPT ![runs[r].pageId] = Entry(fallbackPayload)]
    /\ saveChangelogSnapshot(runs[r].pageId, fallbackPayload)

\* mutant: the fallback payload is returned but not cached
Degrade_SkipsCache(r, fallbackPayload) ==
    /\ runs' = [runs EXCEPT ![r] = Returned(@, fallbackPayload, "degraded", @.fx)]
    /\ lastReturn' = [lastReturn EXCEPT ![runs[r].pageId] = Entry(fallbackPayload)]
    /\ UNCHANGED <<cache, snapshots>>

\* lines 231-241: serve the persisted releases with the new errors
Degrade(r, fallbackPayload) ==
    /\ cache' = [cache EXCEPT ![runs[r].pageId] = Entry(fallbackPayload)]
    /\ runs' = [runs EXCEPT ![r] =
                   Returned(@, fallbackPayload, "degraded", [@.fx EXCEPT !.cacheSet = TRUE])]
    /\ lastReturn' = [lastReturn EXCEPT ![runs[r].pageId] = Entry(fallbackPayload)]
    /\ UNCHANGED snapshots

\* mutant: a cache entry that is still fresh is not overwritten
Persist_KeepsFreshEntry(r, payload) ==
    /\ saveChangelogSnapshot(runs[r].pageId, payload)
    /\ cache' = IF CacheHit(TRUE, cache[runs[r].pageId]) THEN cache
                ELSE [cache EXCEPT ![runs[r].pageId] = Entry(payload)]
    /\ runs' = [runs EXCEPT ![r] =
                   Returned(@, payload, "fresh", [@.fx EXCEPT !.cacheSet = TRUE, !.saved = TRUE])]
    /\ lastReturn' = [lastReturn EXCEPT ![runs[r].pageId] = Entry(payload)]

\* mutant: the new payload is cached but the snapshot row is not written
Persist_CacheOnly(r, payload) ==
    /\ cache' = [cache EXCEPT ![runs[r].pageId] = Entry(payload)]
    /\ runs' = [runs EXCEPT ![r] =
                   Returned(@, payload, "fresh", [@.fx EXCEPT !.cacheSet = TRUE])]
    /\ lastReturn' = [lastReturn EXCEPT ![runs[r].pageId] = Entry(payload)]
    /\ UNCHANGED snapshots

\* lines 244-251: persist the new payload and cache it
Persist(r, payload) ==
    /\ saveChangelogSnapshot(runs[r].pageId, payload)
    /\ cache' = [cache EXCEPT ![runs[r].pageId] = Entry(payload)]
    /\ runs' = [runs EXCEPT ![r] =
                   Returned(@, payload, "fresh", [@.fx EXCEPT !.cacheSet = TRUE, !.saved = TRUE])]
    /\ lastReturn' = [lastReturn EXCEPT ![runs[r].pageId] = Entry(payload)]

\* mutant: the call goes on as soon as one adapter has settled
Resume_AfterFirst(r) ==
    LET run == runs[r]
        releases == SortReleases(Flat(run.results))
        payload == [fetchedAt |-> Iso(now), releases |-> releases, errors |-> run.errors]
    IN /\ Quiet
       /\ run.pc = "fetching"
       /\ \E i \in 1..Len(run.results) : ~run.results[i].pending
       /\ IF ShouldDegrade(payload, run.persistedSnapshot)
          THEN Degrade(r, FallbackPayload(run.persistedSnapshot, payload))
          ELSE Persist(r, payload)
       /\ UNCHANGED <<now, repo_sources, boots, calls, client, probe, exchange, refreshed, changelog_pages>>

\* lines 220-251: every adapter has settled; merge, then degrade or persist
Resume(r) ==
    LET run == runs[r]
        releases == SortReleases(Flat(run.results))
        payload == [fetchedAt |-> Iso(now), releases |-> releases, errors |-> run.errors]
    IN /\ Quiet
       /\ run.pc = "fetching"
       /\ \A i \in 1..Len(run.results) : ~run.results[i].pending
       /\ IF ShouldDegrade(payload, run.persistedSnapshot)
          THEN Degrade(r, FallbackPayload(run.persistedSnapshot, payload))
          ELSE Persist(r, payload)
       /\ UNCHANGED <<now, repo_sources, boots, calls, client, probe, exchange, refreshed, changelog_pages>>

\* mutant: the page argument is ignored
invalidateChangelogCache_ClearsAll(pageId) ==
    /\ Quiet
    /\ cache' = [p \in Pages |-> Null]
    /\ lastReturn' = [p \in Pages |-> Null]
    /\ UNCHANGED <<now, snapshots, repo_sources, runs, boots, calls, client, probe, exchange, refreshed, changelog_pages>>

\* lines 172-179; pageId is NullStr when the argument is omitted
invalidateChangelogCache(pageId) ==
    /\ Quiet
    /\ IF Truthy(pageId)
       THEN /\ cache' = [cache EXCEPT ![pageId] = Null]
            /\ lastReturn' = [lastReturn EXCEPT ![pageId] = Null]
       ELSE /\ cache' = [p \in Pages |-> Null]
            /\ lastReturn' = [p \in Pages |-> Null]
    /\ UNCHANGED <<now, snapshots, repo_sources, runs, boots, calls, client, probe, exchange, refreshed, changelog_pages>>

\* part_006 lines 171-183: the admin action Refresh Cache
refreshAction ==
    /\ Quiet
    /\ cache' = [p \in Pages |-> Null]
    /\ lastReturn' = [p \in Pages |-> Null]
    /\ refreshed' = [at |-> now, calls |-> calls]
    /\ UNCHANGED <<now, snapshots, repo_sources, runs, boots, calls, client, probe, exchange,
                   changelog_pages>>

\* the caller takes the payload, or the rejection, of an ended call
Deliver(r) ==
    /\ runs[r].pc \in {"returned", "threw"}
    /\ runs' = [runs EXCEPT ![r] = IdleRun]
    /\ UNCHANGED <<now, cache, snapshots, repo_sources, lastReturn, boots, calls, client, probe, exchange, refreshed, changelog_pages>>

\* time passes
Tick ==
    /\ Quiet
    /\ now + TickMs <= MaxTicks * TickMs
    /\ now' = now + TickMs
    /\ UNCHANGED <<cache, snapshots, repo_sources, runs, lastReturn, boots, calls, client, probe, exchange, refreshed, changelog_pages>>

\* the process restarts: the cache map and the calls in flight are gone, the database stays
Restart ==
    /\ Quiet
    /\ boots < MaxBoots
    /\ boots' = boots + 1
    /\ cache' = [p \in Pages |-> Null]
    /\ lastReturn' = [p \in Pages |-> Null]
    /\ runs' = [r \in Runs |-> IdleRun]
    /\ UNCHANGED <<now, snapshots, repo_sources, calls, client, probe, exchange, refreshed, changelog_pages>>

----------------------------------------------------------------------------
(* The retry client (fetch-utils.ts).  One call of fetchWithRetry: each     *)
(* step is one iteration of its while loop, the sleep that ends the        *)
(* iteration included.  The client keeps its own clock, started at now.    *)

baseWaitMs == 1500

\* what one fetch() ends with: an exception, or a response with its status and the
\* headers x-ratelimit-remaining and x-ratelimit-reset (NullStr: header absent)
FetchException == [threw |-> TRUE, status |-> 0, remaining |-> NullStr, resetAt |-> NullStr]

HttpResponse(status, remaining, resetAt) ==
    [threw |-> FALSE, status |-> status, remaining |-> remaining, resetAt |-> resetAt]

\* the x-ratelimit-reset values of the model, in seconds since the epoch of the clock
ResetHeaders == {"-5", "5", "10", "3600"}

\* parseInt(resetAt, 10): NaN for a header that does not start with a number
parseInt(header) ==
    CASE header = "-5" -> [nan |-> FALSE, n |-> 0 - 5]
      [] header = "5" -> [nan |-> FALSE, n |-> 5]
      [] header = "10" -> [nan |-> FALSE, n |-> 10]
      [] header = "3600" -> [nan |-> FALSE, n |-> 3600]
      [] OTHER -> [nan |-> TRUE, n |-> 0]

\* Math.random() * 500 lies in [0, 500)
Jitters == {0, 499}

Outcomes ==
    {FetchException,
     HttpResponse(200, NullStr, NullStr),
     HttpResponse(404, NullStr, NullStr),
     HttpResponse(500, NullStr, NullStr),
     HttpResponse(403, "57", NullStr),
     HttpResponse(403, "0", NullStr),
     HttpResponse(403, "0", "5"),
     HttpResponse(403, "0", "3600"),
     HttpResponse(429, NullStr, NullStr),
     HttpResponse(429, NullStr, "soon")}
    \cup {HttpResponse(429, NullStr, h) : h \in ResetHeaders}

IdleClient ==
    [pc |-> "idle", maxRetries |-> 0, attempt |-> 0, clock |-> 0,
     requests |-> 0, sleeps |-> <<>>, statuses |-> <<>>, response |-> Null, result |-> Null]

\* line 26
isRateLimited(response) == response.remaining = "0" \/ response.status = 429

\* lines 36-38: the wait until the reset, or the base wait when the reset is not ahead
waitTimeStr(resetAt, clock) ==
    LET parsed == parseInt(resetAt)
        resetTimeMs == parsed.n * 1000
    IN IF ~parsed.nan /\ resetTimeMs > clock THEN resetTimeMs - clock ELSE baseWaitMs

\* line 41
ShortWait(wait) == wait < 10000

\* mutant: only the statuses below 404 end the call at once
NotRetryable_Below404(status) == status >= 400 /\ status < 404

\* line 56
NotRetryable(status) == status >= 400 /\ status < 500 /\ status # 403 /\ status # 429

\* mutant: the delay does not grow
Backoff_Constant(attempt, jitter) == baseWaitMs + jitter

\* lines 14 and 67: the delay after attempt has been incremented
Backoff(attempt, jitter) == baseWaitMs * 2 ^ (attempt - 1) + jitter

\* mutant: the last attempt is not recognised
LastAttempt_Never(attempt, maxRetries) == attempt > maxRetries

\* lines 10, 29, 51, 60
LastAttempt(attempt, maxRetries) == attempt = maxRetries

\* how an iteration ends
Throw == [do |-> "throw", delay |-> 0]
Return == [do |-> "return", delay |-> 0]
Retry(delay) == [do |-> "retry", delay |-> delay]

\* mutant: a rate-limit wait is taken without looking at the attempts already used
Decide_WaitUnbounded(attempt, maxRetries, clock, outcome, jitter) ==
    IF outcome.threw
    THEN IF LastAttempt(attempt, maxRetries) THEN Throw ELSE Retry(Backoff(attempt + 1, 0))
    ELSE IF ResponseOk(outcome) THEN Return
    ELSE IF outcome.status = 403 \/ outcome.status = 429
    THEN IF isRateLimited(outcome) /\ Truthy(outcome.resetAt)
         THEN IF ShortWait(waitTimeStr(outcome.resetAt, clock))
              THEN Retry(waitTimeStr(outcome.resetAt, clock) + 500)
              ELSE Return
         ELSE IF LastAttempt(attempt, maxRetries) THEN Return
         ELSE Retry(Backoff(attempt + 1, jitter))
    ELSE IF NotRetryable(outcome.status) THEN Return
    ELSE IF LastAttempt(attempt, maxRetries) THEN Return
    ELSE Retry(Backoff(attempt + 1, jitter))

\* mutant: a 403 or 429 that carries no short reset time is returned at once
Decide_ForbiddenReturned(attempt, maxRetries, clock, outcome, jitter) ==
    IF outcome.threw
    THEN IF LastAttempt(attempt, maxRetries) THEN Throw ELSE Retry(Backoff(attempt + 1, 0))
    ELSE IF ResponseOk(outcome) THEN Return
    ELSE IF outcome.status = 403 \/ outcome.status = 429
    THEN IF isRateLimited(outcome) /\ LastAttempt(attempt, maxRetries) THEN Return
         ELSE IF isRateLimited(outcome) /\ Truthy(outcome.resetAt)
         THEN IF ShortWait(waitTimeStr(outcome.resetAt, clock))
              THEN Retry(waitTimeStr(outcome.resetAt, clock) + 500)
              ELSE Return
         ELSE Return
    ELSE IF NotRetryable(outcome.status) THEN Return
    ELSE IF LastAttempt(attempt, maxRetries) THEN Return
    ELSE Retry(Backoff(attempt + 1, jitter))

\* lines 9-67: what the iteration does with the outcome of its fetch
Decide(attempt, maxRetries, clock, outcome, jitter) ==
    IF outcome.threw
    THEN IF LastAttempt(attempt, maxRetries) THEN Throw ELSE Retry(Backoff(attempt + 1, 0))
    ELSE IF ResponseOk(outcome) THEN Return
    ELSE IF outcome.status = 403 \/ outcome.status = 429
    THEN IF isRateLimited(outcome) /\ LastAttempt(attempt, maxRetries) THEN Return
         ELSE IF isRateLimited(outcome) /\ Truthy(outcome.resetAt)
         THEN IF ShortWait(waitTimeStr(outcome.resetAt, clock))
              THEN Retry(waitTimeStr(outcome.resetAt, clock) + 500)
              ELSE Return
         ELSE IF LastAttempt(attempt, maxRetries) THEN Return
         ELSE Retry(Backoff(attempt + 1, jitter))
    ELSE IF NotRetryable(outcome.status) THEN Return
    ELSE IF LastAttempt(attempt, maxRetries) THEN Return
    ELSE Retry(Backoff(attempt + 1, jitter))

\* lines 1-3: a call begins
fetchWithRetry(maxRetries) ==
    /\ client.pc \in {"idle", "returned", "threw", "exhausted"}
    /\ client' = [IdleClient EXCEPT !.pc = "loop", !.maxRetries = maxRetries, !.clock = now]
    /\ UNCHANGED <<now, cache, snapshots, repo_sources, runs, lastReturn, boots, calls, probe, exchange, refreshed, changelog_pages>>

\* lines 5-70: the loop test; one iteration, or the throw after the loop
Iterate ==
    /\ client.pc = "loop"
    /\ IF client.attempt <= client.maxRetries
       THEN \E outcome \in Outcomes, jitter \in Jitters :
               LET end == Decide(client.attempt, client.maxRetries, client.clock, outcome, jitter)
                   seen == [client EXCEPT !.requests = @ + 1,
                                          !.statuses = Append(@, outcome.status),
                                          !.response = IF outcome.threw THEN @ ELSE outcome]
               IN client' =
                      IF end.do = "throw" THEN [seen EXCEPT !.pc = "threw"]
                      ELSE IF end.do = "return" THEN [seen EXCEPT !.pc = "returned", !.result = outcome]
                      ELSE [seen EXCEPT !.attempt = @ + 1,
                                        !.sleeps = Append(@, end.delay),
                                        !.clock = @ + end.delay]
       ELSE client' = [client EXCEPT !.pc = "exhausted"]
    /\ UNCHANGED <<now, cache, snapshots, repo_sources, runs, lastReturn, boots, calls, probe, exchange, refreshed, changelog_pages>>

----------------------------------------------------------------------------
(* One adapter call on its own, against every answer of a wider catalog *)

UnusableReleases ==
    <<[id |-> <<"7">>, tag_name |-> "", name |-> NullStr, published_at |-> NullDate]>>

RateLimitBody == "API rate limit exceeded"

RECURSIVE Repeat(_, _)
Repeat(str, n) == IF n = 0 THEN "" ELSE str \o Repeat(str, n - 1)

\* an error page longer than 140 characters, with a space as its 140th
LongBody == Repeat("e", 139) \o " " \o Repeat("f", 20)

\* a body of white space only
BlankBody == " \n"

\* the final answers of fetchWithRetry to the commits request
FallbackAnswers ==
    {NetworkFailure,
     Response(200, "", TRUE, Commits),
     Response(200, "", TRUE, <<>>),
     Response(502, "Bad Gateway", TRUE, <<>>),
     Response(503, BlankBody, TRUE, <<>>),
     Response(507, LongBody, TRUE, <<>>)}

\* the final answers of fetchWithRetry to the first request of the adapter: the releases
\* request, or for Bitbucket the commits request
PrimaryAnswers(source) ==
    IF source.provider = "bitbucket"
    THEN FallbackAnswers \cup {Response(429, "Too Many Requests", TRUE, <<>>)}
    ELSE
    {NetworkFailure,
     Response(200, "", TRUE, IF source.provider = "gitlab" THEN GitLabReleases ELSE GitHubReleases),
     Response(200, "", TRUE, <<>>),
     Response(200, "", TRUE, UnusableReleases),
     Response(404, "Not Found", TRUE, <<>>),
     Response(403, RateLimitBody, TRUE, <<>>),
     Response(429, "Too Many Requests", TRUE, <<>>),
     Response(500, "", TRUE, <<>>),
     Response(504, BlankBody, TRUE, <<>>),
     Response(501, LongBody, TRUE, <<>>)}

\* the base URLs an administrator may have configured for a source
BaseUrls(source) ==
    IF source.provider = "bitbucket"
    THEN {<<>>,
          <<"bitbucket.org">>,
          <<"api.bitbucket.org">>,
          <<"api.bitbucket.org", "2.0">>,
          <<"api.bitbucket.org", "rest", "api", "1.0">>,
          <<"bitbucket.example.com">>,
          <<"bitbucket.example.com", "rest", "api", "1.0">>,
          <<"bitbucket.example.com", "rest", "api", "latest">>}
    ELSE {<<>>}

\* lines 732-748, called for one source with the given answers
Probe(source, up) ==
    /\ probe = Null
    /\ probe' = [source |-> source, up |-> up, result |-> fetchReleasesForSource(source, up),
                 url |-> IF source.provider = "bitbucket" THEN bitbucketCommitsUrl(source)
                         ELSE Null]
    /\ UNCHANGED <<now, cache, snapshots, repo_sources, runs, lastReturn, boots, calls, client, exchange, refreshed, changelog_pages>>

----------------------------------------------------------------------------
(* The route handlers (app/api/changelog/route.ts, app/api/admin/sources) *)

\* String.prototype.toLowerCase, for the letters of the headers of the model
LowerCase(ch) ==
    CASE ch = "A" -> "a" [] ch = "B" -> "b" [] ch = "E" -> "e"
      [] ch = "K" -> "k" [] ch = "R" -> "r" [] ch = "Y" -> "y"
      [] ch = "C" -> "c" [] ch = "D" -> "d" [] ch = "T" -> "t"
      [] OTHER -> ch

RECURSIVE toLowerCase(_)
toLowerCase(str) ==
    IF str = "" THEN "" ELSE LowerCase(SubSeq(str, 1, 1)) \o toLowerCase(SubSeq(str, 2, Len(str)))

startsWith(str, prefix) == Len(str) >= Len(prefix) /\ SubSeq(str, 1, Len(prefix)) = prefix

\* value?.trim(): NullStr stands for an absent value
trimOptional(value) == IF value = NullStr THEN NullStr ELSE trim(value)

\* mutant: any Authorization header is accepted
isAuthorized_AnyAuthorization(env, request) ==
    LET expectedApiKey == trimOptional(env.CHANGELOG_API_KEY)
    IN IF ~Truthy(expectedApiKey) THEN TRUE
       ELSE \/ trimOptional(request.xApiKey) = expectedApiKey
            \/ request.authorization # NullStr

\* route.ts lines 5-16
isAuthorized(env, request) ==
    LET expectedApiKey == trimOptional(env.CHANGELOG_API_KEY)
    IN IF ~Truthy(expectedApiKey) THEN TRUE
       ELSE LET headerApiKey == trimOptional(request.xApiKey)
                authHeader == trimOptional(request.authorization)
                bearerToken == IF authHeader # NullStr /\ startsWith(toLowerCase(authHeader), "bearer ")
                               THEN trim(slice(authHeader, 7, Len(authHeader)))
                               ELSE NullStr
            IN headerApiKey = expectedApiKey \/ bearerToken = expectedApiKey

\* a request has reached a route handler of the process, whose environment is env
Receive(route, env, request) ==
    /\ Quiet
    /\ exchange' = [route |-> route, env |-> env, request |-> request, status |-> 0]
    /\ UNCHANGED <<now, cache, snapshots, repo_sources, runs, lastReturn, boots, calls, client, probe, refreshed, changelog_pages>>

\* the request at the handler of the given route
At(route) == exchange # Null /\ exchange.status = 0 /\ exchange.route = route

\* the handler answers with the given status, having done nothing else
Answer(status) ==
    /\ exchange' = [exchange EXCEPT !.status = status]
    /\ UNCHANGED <<now, cache, snapshots, repo_sources, runs, lastReturn, boots, calls, client, probe, refreshed, changelog_pages>>

\* the answer has been sent
Respond ==
    /\ exchange # Null
    /\ exchange.status # 0
    /\ exchange' = Null
    /\ UNCHANGED <<now, cache, snapshots, repo_sources, runs, lastReturn, boots, calls, client, probe, refreshed, changelog_pages>>

\* route.ts lines 18-39: GET /api/changelog; the page is the one the path or the host of
\* the request resolves to, and the answer of an authorized request is that of the call
GET(r) ==
    /\ At("GET /api/changelog")
    /\ runs[r].pc = "idle"
    /\ IF ~isAuthorized(exchange.env, exchange.request)
       THEN Answer(401)
       ELSE /\ getUnifiedChangelog(r, exchange.request.pageId, exchange.request.force = "1")
            /\ exchange' = Null

\* admin-auth.ts lines 8-10
getSessionSecret(env) ==
    IF env.ADMIN_SESSION_SECRET # NullStr THEN env.ADMIN_SESSION_SECRET
    ELSE "pipeops-admin-session-secret-change-me"

\* admin-auth.ts lines 12-14: the HMAC-SHA256 of the payload under the secret, as a term
sign(env, payload) == "hmac(" \o getSessionSecret(env) \o "," \o payload \o ")"

\* admin-auth.ts lines 16-18
expectedCookieValue(env) == "admin" \o "." \o sign(env, "admin")

\* admin-auth.ts lines 20-22
isAdminPasswordConfigured(env) == Truthy(trimOptional(env.ADMIN_PASSWORD))

\* mutant: a cookie of the right length is accepted
isAdminAuthenticated_LengthOnly(env, session) ==
    IF ~isAdminPasswordConfigured(env) THEN TRUE
    ELSE IF ~Truthy(session) THEN FALSE
    ELSE Len(session) = Len(expectedCookieValue(env))

\* admin-auth.ts lines 24-44; session is the value of the cookie pipeops_admin_session
isAdminAuthenticated(env, session) ==
    IF ~isAdminPasswordConfigured(env) THEN TRUE
    ELSE IF ~Truthy(session) THEN FALSE
    ELSE LET expected == expectedCookieValue(env)
         IN IF Len(session) # Len(expected) THEN FALSE
            ELSE session = expected

\* db.ts getPageOrThrow
PageExists(pageId) == pageId \in PageIds /\ changelog_pages[pageId] # Null

\* db.ts createRepoSource, with the id randomUUID() returned
createRepoSource(id, input) ==
    [repo_sources EXCEPT ![id] = [id |-> id, pageId |-> input.pageId, provider |-> input.provider,
                                  baseUrl |-> <<>>, enabled |-> input.enabled]]

\* db.ts updateRepoSource, for a row that exists
updateRepoSource(id, input) ==
    [repo_sources EXCEPT ![id] = [@ EXCEPT !.pageId = input.pageId, !.provider = input.provider,
                                           !.enabled = input.enabled]]

\* db.ts deleteRepoSource
deleteRepoSource(id) == [repo_sources EXCEPT ![id] = Null]

\* the handler has changed the source table, called invalidateChangelogCache() and answers
Mutated(table, status) ==
    /\ exchange' = [exchange EXCEPT !.status = status]
    /\ repo_sources' = table
    /\ cache' = [p \in Pages |-> Null]
    /\ lastReturn' = [p \in Pages |-> Null]
    /\ UNCHANGED <<now, snapshots, runs, boots, calls, client, probe, refreshed, changelog_pages>>

\* POST /api/admin/sources; an exception of createRepoSource is answered 500
POST ==
    /\ At("POST /api/admin/sources")
    /\ LET body == exchange.request.body
       IN IF ~isAdminAuthenticated(exchange.env, exchange.request.session) THEN Answer(401)
          ELSE IF ~body.valid THEN Answer(400)
          ELSE IF ~PageExists(body.pageId) THEN Answer(500)
          ELSE \E id \in {s \in AllIds : repo_sources[s] = Null} :
                  Mutated(createRepoSource(id, body), 201)

\* PATCH /api/admin/sources/[id]; an exception of updateRepoSource is answered 500
PATCH ==
    /\ At("PATCH /api/admin/sources/[id]")
    /\ LET body == exchange.request.body
           id == exchange.request.id
       IN IF ~isAdminAuthenticated(exchange.env, exchange.request.session) THEN Answer(401)
          ELSE IF ~body.valid THEN Answer(400)
          ELSE IF repo_sources[id] = Null THEN Answer(500)
          ELSE IF ~PageExists(body.pageId) THEN Answer(500)
          ELSE Mutated(updateRepoSource(id, body), 200)

\* DELETE /api/admin/sources/[id]
DELETE ==
    /\ At("DELETE /api/admin/sources/[id]")
    /\ IF ~isAdminAuthenticated(exchange.env, exchange.request.session) THEN Answer(401)
       ELSE Mutated(deleteRepoSource(exchange.request.id), 200)

\* rows a previous process may have left in changelog_snapshots
----------------------------------------------------------------------------
(* Pages and sources in the database (db.ts) and the admin actions on them *)

\* db.ts line 104
RESERVED_PATHS == {"admin", "api", "landing"}

\* the characters the pattern [^a-z0-9-] keeps
PathChars ==
    {"a", "b", "c", "d", "e", "f", "g", "h", "i", "j", "k", "l", "m", "n", "o", "p", "q", "r",
     "s", "t", "u", "v", "w", "x", "y", "z", "0", "1", "2", "3", "4", "5", "6", "7", "8", "9", "-"}

\* replace(/^x+/, "") for the characters x of a set
RECURSIVE stripStart(_, _)
stripStart(str, set) ==
    IF str # "" /\ SubSeq(str, 1, 1) \in set THEN stripStart(SubSeq(str, 2, Len(str)), set) ELSE str

\* replace(/x+$/, "")
RECURSIVE stripEnd(_, _)
stripEnd(str, set) ==
    IF str # "" /\ SubSeq(str, Len(str), Len(str)) \in set
    THEN stripEnd(SubSeq(str, 1, Len(str) - 1), set)
    ELSE str

\* replace(/x+/g, "-")
RECURSIVE replaceRuns(_, _)
replaceRuns(str, set) ==
    IF str = "" THEN ""
    ELSE IF SubSeq(str, 1, 1) \in set THEN "-" \o replaceRuns(stripStart(str, set), set)
    ELSE SubSeq(str, 1, 1) \o replaceRuns(SubSeq(str, 2, Len(str)), set)

\* replace(/[^x]/g, "")
RECURSIVE keepChars(_, _)
keepChars(str, set) ==
    IF str = "" THEN ""
    ELSE (IF SubSeq(str, 1, 1) \in set THEN SubSeq(str, 1, 1) ELSE "")
         \o keepChars(SubSeq(str, 2, Len(str)), set)

\* what a function of db.ts that threw leaves behind: nothing
Thrown == [threw |-> TRUE]

\* db.ts lines 134-153
normalizePathName(value) ==
    LET normalized ==
            replaceRuns(keepChars(replaceRuns(stripEnd(stripStart(toLowerCase(trim(value)), {"/"}),
                                                       {"/"}),
                                              WhiteSpace),
                                  PathChars),
                        {"-"})
    IN IF normalized = "" THEN Thrown
       ELSE IF normalized \in RESERVED_PATHS THEN Thrown
       ELSE [threw |-> FALSE, value |-> normalized]

\* the UNIQUE constraint on changelog_pages.path_name, for the row of page id
PathTaken(id, pathName) ==
    \E p \in PageIds \ {id} : changelog_pages[p] # Null /\ changelog_pages[p].pathName = pathName

\* db.ts lines 379-400, with the id randomUUID() returned
createChangelogPage(id, input) ==
    LET pathName == normalizePathName(input.pathName)
    IN IF pathName.threw THEN Thrown
       ELSE IF PathTaken(id, pathName.value) THEN Thrown
       ELSE [threw |-> FALSE,
             pages |-> [changelog_pages EXCEPT ![id] = [id |-> id, pathName |-> pathName.value]]]

\* db.ts lines 402-427
updateChangelogPage(input) ==
    LET pathName == normalizePathName(input.pathName)
    IN IF ~PageExists(input.id) THEN Thrown
       ELSE IF pathName.threw THEN Thrown
       ELSE IF input.id = DEFAULT_CHANGELOG_PAGE_ID /\ pathName.value # DEFAULT_CHANGELOG_PATH_NAME
       THEN Thrown
       ELSE IF PathTaken(input.id, pathName.value) THEN Thrown
       ELSE [threw |-> FALSE,
             pages |-> [changelog_pages EXCEPT ![input.id].pathName = pathName.value]]

\* db.ts lines 434-436: SELECT COUNT(*) FROM repo_sources WHERE page_id = ?
SourceCount(id) == Cardinality({s \in AllIds : repo_sources[s] # Null /\ repo_sources[s].pageId = id})

\* the rows of changelog_snapshots without the row of page id
WithoutSnapshot(id) == [p \in Pages |-> IF p = id THEN Null ELSE snapshots[p]]

\* mutant: the row of the page is deleted and its snapshot row is left
deleteChangelogPage_KeepsSnapshot(id) ==
    IF id = DEFAULT_CHANGELOG_PAGE_ID THEN Thrown
    ELSE IF SourceCount(id) > 0 THEN Thrown
    ELSE [threw |-> FALSE,
          snapshots |-> snapshots,
          pages |-> [p \in PageIds |-> IF p = id THEN Null ELSE changelog_pages[p]]]

\* db.ts lines 429-444
deleteChangelogPage(id) ==
    IF id = DEFAULT_CHANGELOG_PAGE_ID THEN Thrown
    ELSE IF SourceCount(id) > 0 THEN Thrown
    ELSE [threw |-> FALSE,
          snapshots |-> WithoutSnapshot(id),
          pages |-> [p \in PageIds |-> IF p = id THEN Null ELSE changelog_pages[p]]]

\* an admin action has run to its end, or to the exception it threw
Acted(action, request, threw) ==
    exchange' = [route |-> action, env |-> Null, request |-> request,
                 status |-> IF threw THEN 500 ELSE 200]

\* the Map of the cache after invalidateChangelogCache(pageId), admin-auth.ts lines 172-179
Invalidated(entries, pageId) ==
    IF Truthy(pageId) THEN [p \in Pages |-> IF p = pageId THEN Null ELSE entries[p]]
    ELSE [p \in Pages |-> Null]

\* part_006 lines 201-228
createChangelogPageAction(id, pathName) ==
    LET done == createChangelogPage(id, [pathName |-> trim(pathName)])
    IN /\ Quiet
       /\ changelog_pages[id] = Null
       /\ Acted("createChangelogPageAction", [id |-> id, pathName |-> pathName], done.threw)
       /\ changelog_pages' = IF done.threw THEN changelog_pages ELSE done.pages
       /\ UNCHANGED <<now, cache, snapshots, repo_sources, runs, lastReturn, boots, calls, client, probe, refreshed>>

\* part_006 lines 230-264
updateChangelogPageAction(id, pathName) ==
    LET done == updateChangelogPage([id |-> id, pathName |-> trim(pathName)])
    IN /\ Quiet
       /\ Acted("updateChangelogPageAction", [id |-> id, pathName |-> pathName], done.threw)
       /\ changelog_pages' = IF done.threw THEN changelog_pages ELSE done.pages
       /\ cache' = IF done.threw THEN cache ELSE Invalidated(cache, NullStr)
       /\ lastReturn' = IF done.threw THEN lastReturn ELSE Invalidated(lastReturn, NullStr)
       /\ UNCHANGED <<now, snapshots, repo_sources, runs, boots, calls, client, probe, refreshed>>

\* part_006 lines 266-285
deleteChangelogPageAction(id) ==
    LET done == deleteChangelogPage(id)
    IN /\ Quiet
       /\ Acted("deleteChangelogPageAction", [id |-> id], done.threw)
       /\ changelog_pages' = IF done.threw THEN changelog_pages ELSE done.pages
       /\ snapshots' = IF done.threw THEN snapshots ELSE done.snapshots
       /\ cache' = IF done.threw THEN cache ELSE Invalidated(cache, id)
       /\ lastReturn' = IF done.threw THEN lastReturn ELSE Invalidated(lastReturn, id)
       /\ UNCHANGED <<now, repo_sources, runs, boots, calls, client, probe, refreshed>>

\* an admin action on the sources has changed the table, or has thrown
SourceActed(action, request, threw, table) ==
    /\ Quiet
    /\ Acted(action, request, threw)
    /\ repo_sources' = IF threw THEN repo_sources ELSE table
    /\ cache' = IF threw THEN cache ELSE Invalidated(cache, NullStr)
    /\ lastReturn' = IF threw THEN lastReturn ELSE Invalidated(lastReturn, NullStr)
    /\ UNCHANGED <<now, snapshots, runs, boots, calls, client, probe, refreshed, changelog_pages>>

\* part_006 lines 66-102; createRepoSource throws when the page is missing (db.ts line 468)
createSourceAction(id, body) ==
    /\ repo_sources[id] = Null
    /\ SourceActed("createSourceAction", [id |-> id, body |-> body],
                   ~PageExists(body.pageId), createRepoSource(id, body))

\* part_006 lines 104-149; updateRepoSource throws when the source or the page is missing
\* (db.ts lines 525-530)
updateSourceAction(id, body) ==
    SourceActed("updateSourceAction", [id |-> id, body |-> body],
                repo_sources[id] = Null \/ ~PageExists(body.pageId), updateRepoSource(id, body))

\* part_006 lines 151-169
deleteSourceAction(id) ==
    SourceActed("deleteSourceAction", [id |-> id], FALSE, deleteRepoSource(id))

StoredPayload(fetchedAt) ==
    [fetchedAt |-> fetchedAt,
     releases |-> SortReleases(fetchReleasesForSource(InitialSources["s1"],
                                                      Up(Response(200, "", TRUE, GitHubReleases),
                                                         NetworkFailure)).releases),
     errors |-> <<>>]

InitialRows ==
    {Null,
     Row(StoredPayload(Iso(0))),
     Row(StoredPayload(Iso(TickMs))),
     Row(StoredPayload(InvalidDate))}

Init ==
    /\ now = 0
    /\ cache = [p \in Pages |-> Null]
    /\ snapshots \in {[p \in Pages |-> IF p = DEFAULT_CHANGELOG_PAGE_ID THEN row ELSE Null] :
                         row \in InitialRows}
    /\ repo_sources = InitialSources
    /\ runs = [r \in Runs |-> IdleRun]
    /\ lastReturn = [p \in Pages |-> Null]
    /\ boots = 0
    /\ calls = 0
    /\ client = IdleClient
    /\ probe = Null
    /\ exchange = Null
    /\ refreshed = Null
    /\ changelog_pages = InitialPages

\* one request at a time
Next ==
    \/ \E pageId \in Pages, forceRefresh \in BOOLEAN : Start("r1", pageId, forceRefresh)
    \/ \E i \in 1..2 : Settle("r1", i)
    \/ Resume("r1")
    \/ Deliver("r1")
    \/ \E pageId \in Pages \cup {NullStr} : invalidateChangelogCache(pageId)
    \/ Tick
    \/ Restart

Spec == Init /\ [][Next]_vars

\* overlapping requests for the default page
NextConcurrent ==
    \/ \E r \in Runs, forceRefresh \in BOOLEAN : Start(r, DEFAULT_CHANGELOG_PAGE_ID, forceRefresh)
    \/ \E r \in Runs, i \in 1..2 : Settle(r, i)
    \/ \E r \in Runs : Resume(r)
    \/ \E r \in Runs : Deliver(r)
    \/ invalidateChangelogCache(DEFAULT_CHANGELOG_PAGE_ID)
    \/ Tick
    \/ Restart

SpecConcurrent == Init /\ [][NextConcurrent]_vars

\* calls of the retry client, with every number of retries up to MaxRetries
NextRetry ==
    \/ \E maxRetries \in 0..MaxRetries : fetchWithRetry(maxRetries)
    \/ Iterate

SpecRetry == Init /\ [][NextRetry]_vars

\* adapter calls for the sources of the model
NextAdapter ==
    \E id \in SourceIds :
        \E baseUrl \in BaseUrls(repo_sources[id]) :
            \E primary \in PrimaryAnswers(repo_sources[id]), fallback \in FallbackAnswers :
                Probe([repo_sources[id] EXCEPT !.baseUrl = baseUrl], Up(primary, fallback))

SpecAdapter == Init /\ [][NextAdapter]_vars

\* calls for the default page, one at a time, with the cache refreshed between them
NextRefresh ==
    \/ \E forceRefresh \in BOOLEAN : Start("r1", DEFAULT_CHANGELOG_PAGE_ID, forceRefresh)
    \/ \E i \in 1..2 : Settle("r1", i)
    \/ Resume("r1")
    \/ Deliver("r1")
    \/ refreshAction
    \/ Tick

SpecRefresh == Init /\ [][NextRefresh]_vars

----------------------------------------------------------------------------
(* A run with the HTTP requests of its adapters made one by one *)

\* fetch-utils.ts line 1: the default of maxRetries, which every adapter uses
DefaultMaxRetries == 3

\* what one HTTP request of an adapter may end with: the answer as the adapter reads it and
\* the same answer as fetchWithRetry reads it
UpstreamOutcomes(source, phase) ==
    LET content == IF phase = "fallback" \/ source.provider = "bitbucket" THEN Commits
                   ELSE IF source.provider = "gitlab" THEN GitLabReleases
                   ELSE GitHubReleases
    IN {[answer |-> NetworkFailure, outcome |-> FetchException],
        [answer |-> Response(200, "", TRUE, content), outcome |-> HttpResponse(200, NullStr, NullStr)],
        [answer |-> Response(200, "", TRUE, <<>>), outcome |-> HttpResponse(200, NullStr, NullStr)],
        [answer |-> Response(200, "<html>", FALSE, <<>>), outcome |-> HttpResponse(200, NullStr, NullStr)],
        [answer |-> Response(404, "Not Found", TRUE, <<>>), outcome |-> HttpResponse(404, NullStr, NullStr)],
        [answer |-> Response(500, "", TRUE, <<>>), outcome |-> HttpResponse(500, NullStr, NullStr)],
        [answer |-> Response(429, "", TRUE, <<>>), outcome |-> HttpResponse(429, NullStr, "5")]}

\* fetch-utils.ts line 8: the adapter of source i sends a request and awaits its answer
Request(r, i) ==
    /\ Quiet
    /\ runs[r].pc = "fetching"
    /\ i \in 1..Len(runs[r].sources)
    /\ runs[r].results[i].pending
    /\ LET id == runs[r].sources[i].id
           u == runs[r].upstream[id]
       IN /\ ~u.inflight
          /\ runs' = [runs EXCEPT ![r].upstream[id] =
                         [u EXCEPT !.inflight = TRUE, !.requests = @ + 1]]
    /\ UNCHANGED <<now, cache, snapshots, repo_sources, lastReturn, boots, calls, client, probe, exchange, refreshed, changelog_pages>>

\* mutant: an errors entry is pushed for every source, also when its error is null
SettledRun_AlwaysReports(run, i, result) ==
    IF result.threw
    THEN [run EXCEPT !.pc = "threw", !.path = "threw"]
    ELSE [run EXCEPT !.results[i] = Settled(result),
                     !.errors = Append(@, [sourceId |-> run.sources[i].id,
                                           message |-> result.error])]

\* admin-auth.ts lines 206-217: the adapter of source i has ended with result
SettledRun(run, i, result) ==
    IF result.threw
    THEN [run EXCEPT !.pc = "threw", !.path = "threw"]
    ELSE [run EXCEPT !.results[i] = Settled(result),
                     !.errors = IF result.error # Null
                                THEN Append(@, [sourceId |-> run.sources[i].id,
                                                message |-> result.error])
                                ELSE @]

\* fetch-utils.ts lines 8-67 and the adapters of github.ts: the awaited request is answered;
\* fetchWithRetry tries again, or ends and the adapter goes on to its commit fallback or ends
Reply(r, i) ==
    /\ Quiet
    /\ runs[r].pc = "fetching"
    /\ i \in 1..Len(runs[r].sources)
    /\ LET source == runs[r].sources[i]
           u == runs[r].upstream[source.id]
           idle == [u EXCEPT !.inflight = FALSE]
       IN /\ u.inflight
          /\ ~u.hung
          /\ \E x \in UpstreamOutcomes(source, u.phase) :
                LET end == Decide(u.attempt, DefaultMaxRetries, now, x.outcome, 0)
                    final == IF end.do = "throw" THEN NetworkFailure ELSE x.answer
                    up == IF u.phase = "primary" THEN Up(final, NetworkFailure)
                          ELSE Up(u.primary, final)
                    result == fetchReleasesForSource(source, up)
                IN runs' = [runs EXCEPT ![r] =
                       IF end.do = "retry"
                       THEN [@ EXCEPT !.upstream[source.id] = [idle EXCEPT !.attempt = @ + 1]]
                       ELSE IF u.phase = "primary" /\ Len(result.requests) = 2
                       THEN [@ EXCEPT !.upstream[source.id] =
                                [idle EXCEPT !.phase = "fallback", !.attempt = 0,
                                             !.primary = final]]
                       ELSE SettledRun([@ EXCEPT !.upstream[source.id] =
                                           [idle EXCEPT !.phase = "done"]], i, result)]
    /\ UNCHANGED <<now, cache, snapshots, repo_sources, lastReturn, boots, calls, client, probe, exchange, refreshed, changelog_pages>>

\* the awaited request of source i is one that is never answered
Hang(r, i) ==
    /\ runs[r].pc = "fetching"
    /\ i \in 1..Len(runs[r].sources)
    /\ LET id == runs[r].sources[i].id
       IN /\ runs[r].upstream[id].inflight
          /\ ~runs[r].upstream[id].hung
          /\ runs' = [runs EXCEPT ![r].upstream[id].hung = TRUE]
    /\ UNCHANGED <<now, cache, snapshots, repo_sources, lastReturn, boots, calls, client, probe, exchange, refreshed, changelog_pages>>

\* one forced call with the requests of its adapters
NextUpstream ==
    \/ \E pageId \in Pages : calls = 0 /\ Start("r1", pageId, TRUE)
    \/ \E i \in 1..2 : Request("r1", i)
    \/ \E i \in 1..2 : Reply("r1", i)
    \/ \E i \in 1..2 : Hang("r1", i)
    \/ Resume("r1")
    \/ Deliver("r1")

\* the event loop runs every continuation that is ready, and every request that can be
\* answered is answered unless it is one that hangs
SpecUpstream ==
    /\ Init
    /\ [][NextUpstream]_vars
    /\ \A i \in 1..2 : WF_vars(Request("r1", i)) /\ WF_vars(Reply("r1", i))
    /\ WF_vars(Resume("r1"))

\* the environments and the requests of the model for GET /api/changelog
ApiEnvs == [CHANGELOG_API_KEY : {NullStr, " ", "k3y "}]

ChangelogRequests ==
    [xApiKey : {NullStr, " k3y", "K3Y"},
     authorization : {NullStr, "BEARER  k3y", "Basic k3y"},
     force : {NullStr, "1"},
     pageId : Pages]

\* requests to GET /api/changelog, one at a time
NextApi ==
    \/ \E env \in ApiEnvs, request \in ChangelogRequests :
          /\ calls < MaxCalls
          /\ Receive("GET /api/changelog", env, request)
    \/ GET("r1")
    \/ Respond
    \/ \E i \in 1..2 : Settle("r1", i)
    \/ Resume("r1")
    \/ Deliver("r1")

SpecApi == Init /\ [][NextApi]_vars

\* the environments, the cookies and the requests of the model for the admin routes
AdminEnvs ==
    {[ADMIN_PASSWORD |-> NullStr, ADMIN_SESSION_SECRET |-> NullStr],
     [ADMIN_PASSWORD |-> "hunter2", ADMIN_SESSION_SECRET |-> "s3cret"]}

Sessions(env) ==
    IF isAdminPasswordConfigured(env)
    THEN {NullStr, "admin.hmac(s3cret,admin)", "admin.hmac(s3creT,admin)", "admin"}
    ELSE {NullStr}

InvalidBody == [valid |-> FALSE, pageId |-> "", provider |-> "github", enabled |-> TRUE]

Body(pageId, provider, enabled) ==
    [valid |-> TRUE, pageId |-> pageId, provider |-> provider, enabled |-> enabled]

AdminRequest(session, id, body) == [session |-> session, id |-> id, body |-> body]

\* the requests of the model to one admin route: with each cookie, and for the cookies
\* that are accepted with each body
AdminRequests(env, id, bodies) ==
    {AdminRequest(session, id, body) : session \in Sessions(env), body \in bodies}
    \ {request \in [session : Sessions(env), id : {id}, body : bodies] :
          /\ ~isAdminAuthenticated(env, request.session)
          /\ request.body # InvalidBody}

\* requests to the admin routes and calls of getUnifiedChangelog, one at a time
NextAdmin ==
    \/ \E env \in AdminEnvs :
          \E request \in AdminRequests(env, NullStr,
                                       {InvalidBody, Body("page_gone", "gitea", TRUE),
                                        Body("page_infra", "gitea", FALSE)}) :
             /\ repo_sources["s5"] = Null
             /\ Receive("POST /api/admin/sources", env, request)
    \/ \E env \in AdminEnvs :
          \E request \in AdminRequests(env, "s3",
                                       {InvalidBody, Body(DEFAULT_CHANGELOG_PAGE_ID, "gitea", TRUE)}) :
             Receive("PATCH /api/admin/sources/[id]", env, request)
    \/ \E env \in AdminEnvs :
          \E request \in AdminRequests(env, "s2", {InvalidBody}) :
             Receive("DELETE /api/admin/sources/[id]", env, request)
    \/ POST
    \/ PATCH
    \/ DELETE
    \/ Respond
    \/ \E pageId \in Pages : Start("r1", pageId, FALSE)
    \/ \E i \in 1..3 : Settle("r1", i)
    \/ Resume("r1")
    \/ Deliver("r1")

SpecAdmin == Init /\ [][NextAdmin]_vars

\* the path names the admin types into the page form
PathNames == {"changelog", " Changelog/", "infra", "Team Docs", "admin", "//"}

\* the pages a source form may name: the pages of the model and one that never existed
FormPages == PageIds \cup {"page_gone"}

\* the admin works on pages and on the sources s4 and s5, one action at a time, and the
\* changelog of the page page_infra is asked for once
NextPages ==
    \/ \E id \in FreshPages, pathName \in PathNames : createChangelogPageAction(id, pathName)
    \/ \E id \in PageIds, pathName \in PathNames : updateChangelogPageAction(id, pathName)
    \/ \E id \in PageIds : deleteChangelogPageAction(id)
    \/ \E id \in FreshIds, pageId \in FormPages : createSourceAction(id, Body(pageId, "gitea", FALSE))
    \/ \E id \in {"s4"} \cup FreshIds, pageId \in FormPages :
          updateSourceAction(id, Body(pageId, "bitbucket", TRUE))
    \/ \E id \in {"s4"} \cup FreshIds : deleteSourceAction(id)
    \/ Respond
    \/ calls = 0 /\ Start("r1", "page_infra", TRUE)
    \/ Settle("r1", 1)
    \/ Resume("r1")
    \/ Deliver("r1")

SpecPages == Init /\ [][NextPages]_vars

----------------------------------------------------------------------------
(* Properties *)

\* the enabled sources of a page, as a set of ids
EnabledOf(pageId) ==
    {s \in AllIds : /\ repo_sources[s] # Null
                       /\ repo_sources[s].enabled
                       /\ repo_sources[s].pageId = pageId}

\* run r has aggregated and come back with zero releases, an error, and a snapshot with releases
TotalFailureOverSnapshot(run) ==
    /\ run.fx.listed
    /\ \A i \in 1..Len(run.results) : ~run.results[i].pending
    /\ Flat(run.results) = <<>>
    /\ run.errors # <<>>
    /\ run.persistedSnapshot # Null
    /\ run.persistedSnapshot.releases # <<>>

\* step: call r begins, for page p
Begins(r, p) == runs[r].pc = "idle" /\ runs'[r].pc # "idle" /\ runs'[r].pageId = p

\* C1: a run that produced zero releases and at least one error, over a persisted snapshot
\* with releases, returns the persisted snapshot's releases with exactly the errors of the run
DegradationRule ==
    \A r \in Runs :
        (runs[r].pc = "returned" /\ TotalFailureOverSnapshot(runs[r]))
        => /\ runs[r].ret.releases = runs[r].persistedSnapshot.releases
           /\ getChangelogSnapshot(runs[r].pageId) # Null
           /\ runs[r].ret.releases = getChangelogSnapshot(runs[r].pageId).releases
           /\ runs[r].ret.errors = runs[r].errors

\* C1 witness: after a restart, both sources fail over a stored snapshot and the call returns
DegradedAfterRestart ==
    \E r \in Runs :
        /\ runs[r].pc = "returned"
        /\ TotalFailureOverSnapshot(runs[r])
        /\ Len(runs[r].errors) = 2
        /\ boots = 1

\* C2: the degradation branch caches the combined payload and leaves the snapshot rows as they were
DegradeKeepsSnapshot ==
    [][\A r \in Runs :
          (runs[r].pc = "fetching" /\ runs'[r].pc = "returned" /\ TotalFailureOverSnapshot(runs[r]))
          => /\ snapshots' = snapshots
             /\ runs'[r].ret = [runs[r].persistedSnapshot EXCEPT !.errors = runs[r].errors]
             /\ cache'[runs[r].pageId] = [until |-> now + CACHE_WINDOW_MS, payload |-> runs'[r].ret]]_vars

\* C2 witness: a degraded payload sits in the cache and differs from the persisted snapshot
DegradedPayloadCached ==
    \E r \in Runs :
        /\ runs[r].pc = "returned"
        /\ TotalFailureOverSnapshot(runs[r])
        /\ cache[runs[r].pageId] # Null
        /\ cache[runs[r].pageId].payload = runs[r].ret
        /\ getChangelogSnapshot(runs[r].pageId) # runs[r].ret

\* C3 (as claimed): no call ever rejects, and an aggregated payload holds every release of the
\* sources that succeeded and one error naming each source that failed
FailureIsolation ==
    \A r \in Runs :
        /\ runs[r].pc # "threw"
        /\ (runs[r].pc = "returned" /\ runs[r].fx.listed)
           => /\ \A i \in 1..Len(runs[r].results) :
                    \A k \in 1..Len(runs[r].results[i].releases) :
                        \E j \in 1..Len(runs[r].ret.releases) :
                            runs[r].ret.releases[j] = runs[r].results[i].releases[k]
              /\ \A i \in 1..Len(runs[r].results) :
                    runs[r].results[i].error # Null
                    => \E j \in 1..Len(runs[r].ret.errors) :
                           runs[r].ret.errors[j].sourceId = runs[r].sources[i].id

StrictlyDescending(list) ==
    \A i \in 1..(Len(list) - 1) : getTime(list[i].publishedAt) > getTime(list[i + 1].publishedAt)

Descending(list) ==
    \A i \in 1..(Len(list) - 1) : getTime(list[i].publishedAt) >= getTime(list[i + 1].publishedAt)

\* C4 (as claimed): the releases of every returned payload are strictly descending by publishedAt
ReleasesStrictlyDescending ==
    \A r \in Runs : runs[r].pc = "returned" => StrictlyDescending(runs[r].ret.releases)

\* C4 (amended): the releases of every returned payload are descending by publishedAt,
\* entries with the same instant being adjacent
ReleasesDescending ==
    \A r \in Runs : runs[r].pc = "returned" => Descending(runs[r].ret.releases)

\* C4 witness: a returned payload in which two sources interleave and two entries share an instant
ReleasesWithTie ==
    \E r \in Runs :
        /\ runs[r].pc = "returned"
        /\ Len(runs[r].ret.releases) = 4
        /\ \E i \in 1..3 :
              /\ runs[r].ret.releases[i].publishedAt = runs[r].ret.releases[i + 1].publishedAt
              /\ runs[r].ret.releases[i].sourceId # runs[r].ret.releases[i + 1].sourceId

\* C5: a non-forced call that finds an unexpired cache entry returns its payload and does
\* nothing else: no listing, no adapter call, no snapshot read or write, no cache write
CacheHitReturnsEntry ==
    [][\A r \in Runs, p \in Pages :
          (Begins(r, p) /\ ~runs'[r].forceRefresh /\ cache[p] # Null /\ now < cache[p].until)
          => /\ runs'[r].pc = "returned"
             /\ runs'[r].ret = cache[p].payload
             /\ runs'[r].fx = NoEffects
             /\ cache' = cache
             /\ snapshots' = snapshots]_vars

\* C5 witness: a call has returned from the cache
ServedFromCache ==
    \E r \in Runs : runs[r].pc = "returned" /\ runs[r].path = "hit" /\ runs[r].ret = cache[runs[r].pageId].payload

\* C6: a non-forced call made within the cache window of the previous return for the page,
\* nothing having cleared the cache in between, returns the same payload and invokes no adapter
SecondCallIdentical ==
    [][\A r \in Runs, p \in Pages :
          (Begins(r, p) /\ ~runs'[r].forceRefresh /\ lastReturn[p] # Null /\ now < lastReturn[p].until)
          => /\ runs'[r].pc = "returned"
             /\ runs'[r].ret = lastReturn[p].payload
             /\ ~runs'[r].fx.listed
             /\ runs'[r].fx.invoked = {}]_vars

\* C6 witness: the second call returns, from the cache, the payload of a degraded first call
DegradedPayloadServedAgain ==
    \E r \in Runs :
        /\ runs[r].pc = "returned"
        /\ ~runs[r].fx.listed
        /\ calls = 2
        /\ Len(runs[r].ret.errors) = 2
        /\ runs[r].ret.releases # <<>>

\* C7: a forced call lists the enabled sources of the page and invokes the adapter of each,
\* and what it returns is built from this run, not the cache entry or the snapshot as it is
ForceRefreshReaggregates ==
    \A r \in Runs :
        (runs[r].pc # "idle" /\ runs[r].forceRefresh)
        => /\ runs[r].fx.listed
           /\ runs[r].fx.invoked = EnabledOf(runs[r].pageId)
           /\ {runs[r].sources[i].id : i \in 1..Len(runs[r].sources)} = EnabledOf(runs[r].pageId)
           /\ Len(runs[r].results) = Len(runs[r].sources)
           /\ runs[r].pc = "returned"
              => /\ runs[r].ret.errors = runs[r].errors
                 /\ \/ /\ runs[r].ret.releases = SortReleases(Flat(runs[r].results))
                       /\ runs[r].ret.fetchedAt = Iso(now)
                    \/ TotalFailureOverSnapshot(runs[r])

\* C7 witness: a forced call is fetching although the cache entry is unexpired and the
\* snapshot is younger than the cache window
ForcedDespiteFreshCache ==
    \E r \in Runs :
        LET p == runs[r].pageId
            snap == getChangelogSnapshot(p)
        IN /\ runs[r].pc = "fetching"
           /\ runs[r].forceRefresh
           /\ cache[p] # Null
           /\ now < cache[p].until
           /\ snap # Null
           /\ snap.fetchedAt.tag = "iso"
           /\ now - snap.fetchedAt.ms >= 0
           /\ now - snap.fetchedAt.ms < CACHE_WINDOW_MS

\* C8: a non-forced call without an unexpired cache entry promotes a snapshot whose age is
\* in [0, window) into the cache and returns it, invoking no adapter and writing no snapshot;
\* with a negative, undefined or larger age it re-aggregates
SnapshotPromotion ==
    [][\A r \in Runs, p \in Pages :
          LET snap == getChangelogSnapshot(p)
              age == now - snap.fetchedAt.ms
          IN (/\ Begins(r, p)
              /\ ~runs'[r].forceRefresh
              /\ (cache[p] = Null \/ now >= cache[p].until)
              /\ snap # Null)
             => IF snap.fetchedAt.tag = "iso" /\ age >= 0 /\ age < CACHE_WINDOW_MS
                THEN /\ runs'[r].pc = "returned"
                     /\ runs'[r].ret = snap
                     /\ cache'[p] = [until |-> now + CACHE_WINDOW_MS, payload |-> snap]
                     /\ runs'[r].fx.invoked = {}
                     /\ ~runs'[r].fx.listed
                     /\ snapshots' = snapshots
                ELSE /\ runs'[r].pc = "fetching"
                     /\ runs'[r].fx.listed
                     /\ runs'[r].fx.invoked = EnabledOf(p)
                     /\ cache' = cache]_vars

\* C8 witness: a snapshot has been promoted into the cache and returned
SnapshotPromoted ==
    \E r \in Runs :
        /\ runs[r].pc = "returned"
        /\ runs[r].path = "promoted"
        /\ runs[r].ret = getChangelogSnapshot(runs[r].pageId)
        /\ cache[runs[r].pageId].payload = runs[r].ret

\* C9 (as claimed): a non-forced call that does not re-aggregate never returns a payload
\* whose fetchedAt lies a cache window or more in the past
StalenessBound ==
    \A r \in Runs :
        (/\ runs[r].pc = "returned"
         /\ ~runs[r].forceRefresh
         /\ ~runs[r].fx.listed
         /\ runs[r].ret.fetchedAt.tag = "iso")
        => now - getTime(runs[r].ret.fetchedAt) < CACHE_WINDOW_MS

\* C10: invalidating one page removes that page's entry only, invalidating without a page
\* removes every entry, and neither touches a snapshot row
InvalidationFrame ==
    [][\A pageId \in Pages \cup {NullStr} :
          invalidateChangelogCache(pageId)
          => /\ snapshots' = snapshots
             /\ IF pageId \in Pages
                THEN /\ cache'[pageId] = Null
                     /\ \A q \in Pages \ {pageId} : cache'[q] = cache[q]
                ELSE \A q \in Pages : cache'[q] = Null]_vars

\* C10 witness: the default page's entry is gone although this process aggregated and cached
\* the page after it had cached the other page, whose entry is still there
OnePageInvalidated ==
    LET snap == getChangelogSnapshot(DEFAULT_CHANGELOG_PAGE_ID)
    IN /\ boots = 0
       /\ cache[DEFAULT_CHANGELOG_PAGE_ID] = Null
       /\ cache["page_infra"] # Null
       /\ snap # Null
       /\ Len(snap.releases) = 4
       /\ cache["page_infra"].until < getTime(snap.fetchedAt) + CACHE_WINDOW_MS
       /\ snapshots["page_infra"] # Null

\* C11 (as claimed): the snapshot of a page, if present, is never the payload of a run in
\* which every source failed (zero releases and at least one error)
SnapshotOnlyFromSuccess ==
    \A p \in Pages :
        LET snap == getChangelogSnapshot(p)
        IN snap # Null => ~(snap.releases = <<>> /\ snap.errors # <<>>)

\* every source of the run has failed: its adapter returned an error, or it is the one
\* whose rejection ended the call
EverySourceFailed(run) ==
    /\ run.fx.listed
    /\ run.sources # <<>>
    /\ \A i \in 1..Len(run.results) :
          \/ ~run.results[i].pending /\ run.results[i].error # Null
          \/ /\ run.results[i].pending
             /\ run.pc = "threw"
             /\ \A j \in 1..Len(run.results) : run.results[j].pending => j = i

\* C12 (as claimed): with no persisted snapshot, a call in which every enabled source failed
\* returns an empty releases list and one error per source, and never rejects
AllFailedReturnsEmpty ==
    \A r \in Runs :
        (/\ runs[r].pc \in {"returned", "threw"}
         /\ runs[r].persistedSnapshot = Null
         /\ EverySourceFailed(runs[r]))
        => /\ runs[r].pc = "returned"
           /\ runs[r].ret.releases = <<>>
           /\ Len(runs[r].ret.errors) = Len(runs[r].sources)
           /\ \A i \in 1..Len(runs[r].sources) :
                 \E j \in 1..Len(runs[r].ret.errors) :
                     runs[r].ret.errors[j].sourceId = runs[r].sources[i].id

Last(seq) == seq[Len(seq)]

\* step: the loop of fetchWithRetry has issued a request and got an HTTP response for it
Received == client.pc = "loop" /\ client'.requests = client.requests + 1 /\ Last(client'.statuses) # 0

\* C13: a call of fetchWithRetry throws only when its last allowed attempt (attempt =
\* maxRetries) ends in a network exception; otherwise it returns the response of its last
\* request; the throw after the loop is never reached
RetryOutcome ==
    /\ client.pc # "exhausted"
    /\ client.pc = "threw"
       => /\ Last(client.statuses) = 0
          /\ client.attempt = client.maxRetries
          /\ client.requests = client.maxRetries + 1
    /\ client.pc = "returned"
       => /\ ~client.result.threw
          /\ client.result = client.response
          /\ client.result.status = Last(client.statuses)
          /\ client.requests = Len(client.statuses)
    /\ client.pc = "loop" => client.attempt <= client.maxRetries

\* C13 witness: a call with two retries has thrown after a 500 and two network exceptions
ThrewAfterMixedOutcomes ==
    /\ client.pc = "threw"
    /\ client.maxRetries = 2
    /\ client.statuses = <<500, 0, 0>>

\* C14 (as claimed): a 429 whose reset header is at most 10 seconds ahead is followed by a
\* sleep of that wait plus 500 ms and a further request; one whose reset is farther ahead is
\* returned at once
RateLimitResetRule ==
    [][(/\ Received
        /\ client'.response.status = 429
        /\ Truthy(client'.response.resetAt)
        /\ ~parseInt(client'.response.resetAt).nan
        /\ parseInt(client'.response.resetAt).n * 1000 > client.clock)
       => LET away == parseInt(client'.response.resetAt).n * 1000 - client.clock
          IN IF away <= 10000
             THEN /\ client'.pc = "loop"
                  /\ client'.attempt <= client'.maxRetries
                  /\ Last(client'.sleeps) = away + 500
             ELSE /\ client'.pc = "returned"
                  /\ client'.result = client'.response]_vars

\* C15: a 2xx response, and a 4xx response other than 403 and 429, is returned by the
\* iteration that received it, with no sleep and no further attempt
ImmediateReturn ==
    [][(/\ Received
        /\ \/ ResponseOk(client'.response)
           \/ /\ client'.response.status \in 400..499
              /\ client'.response.status \notin {403, 429})
       => /\ client'.pc = "returned"
          /\ client'.result = client'.response
          /\ client'.sleeps = client.sleeps
          /\ client'.attempt = client.attempt
          /\ client'.clock = client.clock]_vars

\* C15 witness: a 404 received on the third attempt has been returned
NotFoundReturnedLate ==
    /\ client.pc = "returned"
    /\ client.result.status = 404
    /\ client.attempt = 2
    /\ Len(client.sleeps) = 2

\* C16: while every answer is a 5xx, the k-th retry follows a delay in
\* [base * 2^(k-1), base * 2^(k-1) + 500), and the call returns the last response, without
\* throwing, exactly when maxRetries + 1 requests have been made
BackoffUntilExhausted ==
    (/\ client.pc # "idle"
     /\ client.statuses # <<>>
     /\ \A i \in 1..Len(client.statuses) : client.statuses[i] >= 500)
    => /\ client.pc \in {"loop", "returned"}
       /\ \A k \in 1..Len(client.sleeps) :
             /\ client.sleeps[k] >= baseWaitMs * 2 ^ (k - 1)
             /\ client.sleeps[k] < baseWaitMs * 2 ^ (k - 1) + 500
       /\ client.pc = "returned" <=> client.requests = client.maxRetries + 1
       /\ client.pc = "returned"
          => /\ client.result.status >= 500
             /\ Len(client.sleeps) = client.maxRetries
       /\ client.pc = "loop" => Len(client.sleeps) = client.requests

\* C16 witness: a server that always answers 500 has received three requests of a call
\* with two retries, and the call has returned
ServerErrorsExhausted ==
    /\ client.pc = "returned"
    /\ client.maxRetries = 2
    /\ client.statuses = <<500, 500, 500>>
    /\ client.sleeps[2] >= 2 * client.sleeps[1] - 500
    /\ client.sleeps[2] >= 3000

\* the rate-limit signals the claims speak of: a 429, or a 403 whose body says so
RateLimitSignal(resp) ==
    ~resp.threw /\ (resp.status = 429 \/ (resp.status = 403 /\ resp.detail = RateLimitBody))

\* the adapters with a releases request
ReleaseProviders == {"github", "gitlab", "gitea"}

Failed(resp) == resp.threw \/ ~ResponseOk(resp)

\* what an adapter reports for a failed request
ErrorOf(source, resp) ==
    IF resp.threw THEN NetworkError(resp)
    ELSE formatApiError(source.provider, resp.status, resp.detail)

\* a 2xx answer to the releases request with no usable record
NoUsableRelease(resp) ==
    /\ ~resp.threw
    /\ ResponseOk(resp)
    /\ resp.parseable
    /\ SelectSeq(resp.json, UsableRelease) = <<>>

\* C17 (as claimed): after a rate-limit signal on the releases request, each of the three
\* adapters issues no commits request and returns no releases and the formatted error
RateLimitStopsFallback ==
    (/\ probe # Null
     /\ probe.source.provider \in ReleaseProviders
     /\ RateLimitSignal(probe.up.primary))
    => /\ probe.result.requests = <<"releases">>
       /\ probe.result.releases = <<>>
       /\ probe.result.error = ErrorOf(probe.source, probe.up.primary)

\* C18 (as claimed): whenever the releases result is empty or absent (no usable record in a
\* 2xx answer, or a failed request that is not a rate-limit signal) the adapter issues a
\* commits request before it returns
FallbackAlwaysAttempted ==
    (/\ probe # Null
     /\ \/ probe.source.provider \notin ReleaseProviders
        \/ Failed(probe.up.primary) /\ ~RateLimitSignal(probe.up.primary)
        \/ NoUsableRelease(probe.up.primary))
    => \E i \in 1..Len(probe.result.requests) : probe.result.requests[i] = "commits"

\* C19: when the releases request fails without a rate-limit signal and the commits request
\* answers n >= 1 commits, the adapter returns n records, all commits, and no error
FallbackCommitsReplaceError ==
    (/\ probe # Null
     /\ probe.source.provider \in ReleaseProviders
     /\ ~probe.up.primary.threw
     /\ ~ResponseOk(probe.up.primary)
     /\ ~RateLimitSignal(probe.up.primary)
     /\ ~Failed(probe.up.fallback)
     /\ probe.up.fallback.parseable
     /\ Len(probe.up.fallback.json) >= 1)
    => /\ ~probe.result.threw
       /\ Len(probe.result.releases) = Len(probe.up.fallback.json)
       /\ \A i \in 1..Len(probe.result.releases) :
             /\ probe.result.releases[i].kind = "commit"
             /\ probe.result.releases[i].id =
                    buildCommitId(probe.source.id, probe.up.fallback.json[i].sha)
       /\ probe.result.error = Null
       /\ probe.result.requests = <<"releases", "commits">>

\* C19 witness: a 404 on releases, two commits returned
NotFoundThenCommits ==
    /\ probe # Null
    /\ probe.source.provider = "github"
    /\ probe.up.primary.status = 404
    /\ Len(probe.result.releases) = 2
    /\ probe.result.releases[1].kind = "commit"
    /\ probe.result.error = Null

\* C20: when the commits request ran and gave no commits, the adapter's error is the one
\* of the commits request if that failed; else the one of the releases request if that
\* failed; else null
FallbackErrorPrecedence ==
    (/\ probe # Null
     /\ probe.source.provider \in ReleaseProviders
     /\ probe.result.requests = <<"releases", "commits">>
     /\ ~probe.result.threw
     /\ probe.up.fallback.threw \/ ~ResponseOk(probe.up.fallback) \/ probe.up.fallback.json = <<>>)
    => /\ probe.result.releases = <<>>
       /\ probe.result.error =
              IF Failed(probe.up.fallback) THEN ErrorOf(probe.source, probe.up.fallback)
              ELSE IF Failed(probe.up.primary) THEN ErrorOf(probe.source, probe.up.primary)
              ELSE Null
       /\ ~probe.up.primary.threw

\* C20 witness: a 404 on releases and an empty commit list give the 404 error; elsewhere
\* no usable release and an empty commit list give no error
PrimaryErrorSurvives ==
    /\ probe # Null
    /\ probe.source.provider = "gitlab"
    /\ probe.up.primary.status = 404
    /\ ~Failed(probe.up.fallback)
    /\ probe.up.fallback.json = <<>>
    /\ probe.result.error = ErrorOf(probe.source, probe.up.primary)
    /\ probe.result.error # Null

\* the commits request was made after the releases request
FallbackRan == probe.result.requests = <<"releases", "commits">>

\* C21: when fetchWithRetry throws, on the first request of the adapter or on its commit
\* fallback, the adapter does not throw: it returns no releases and the network error
\* made from the exception's message
NetworkExceptionCaught ==
    /\ (probe # Null /\ probe.up.primary.threw)
       => /\ ~probe.result.threw
          /\ probe.result.releases = <<>>
          /\ probe.result.error = [kind |-> "network", label |-> "", status |-> 0,
                                   detail |-> probe.up.primary.detail]
    /\ (probe # Null /\ FallbackRan /\ probe.up.fallback.threw)
       => /\ ~probe.result.threw
          /\ probe.result.releases = <<>>
          /\ probe.result.error = [kind |-> "network", label |-> "", status |-> 0,
                                   detail |-> probe.up.fallback.detail]

\* C21 witness: the commit fallback of the GitHub adapter ended in a network exception
FallbackExceptionCaught ==
    /\ probe # Null
    /\ probe.source.provider = "github"
    /\ probe.up.primary.status = 404
    /\ FallbackRan
    /\ probe.up.fallback.threw
    /\ probe.result.error.kind = "network"

\* the resolved base has the form .../rest/api/<major>.<minor>
ServerForm(apiBase) ==
    \E n \in 1..(Len(apiBase) - 3) :
        /\ Len(apiBase) = n + 3
        /\ SubSeq(apiBase, n + 1, n + 2) = <<"rest", "api">>
        /\ apiBase[n + 3] \in {"1.0", "2.0"}

\* C22: the Bitbucket adapter makes one request, for commits, and returns only commit
\* entries; a resolved base of the Server form gets the projects/.../repos/.../commits
\* path with limit, every other base the repositories/.../commits path with pagelen
BitbucketRequestShape ==
    (probe # Null /\ probe.source.provider = "bitbucket")
    => LET apiBase == inferApiBaseUrl(probe.source)
       IN /\ probe.result.requests = <<"commits">>
          /\ ~probe.result.threw
             => \A i \in 1..Len(probe.result.releases) : probe.result.releases[i].kind = "commit"
          /\ ServerForm(apiBase)
             => /\ probe.url.path = apiBase \o <<"projects", "{owner}", "repos", "{repo}", "commits">>
                /\ probe.url.searchParams = {"limit"}
          /\ ~ServerForm(apiBase)
             => /\ probe.url.path = apiBase \o <<"repositories", "{owner}", "{repo}", "commits">>
                /\ probe.url.searchParams = {"pagelen"}

\* C22 witness: a self-hosted base without the REST suffix was resolved to the Server
\* form and the commits came back from the projects path
BitbucketServerCommits ==
    /\ probe # Null
    /\ probe.source.provider = "bitbucket"
    /\ probe.source.baseUrl = <<"bitbucket.example.com">>
    /\ "limit" \in probe.url.searchParams
    /\ Includes(probe.url.path, "projects")
    /\ probe.result.releases # <<>>

\* the provider-native identifiers of the catalog
NativeReleaseIds ==
    {GitHubReleases[i].id : i \in 1..Len(GitHubReleases)}
    \cup {<<GitLabReleases[i].tag_name>> : i \in 1..Len(GitLabReleases)}

\* the entries any other source can contribute to a changelog
EntriesOfOthers(sourceId) ==
    UNION {UNION {LET result == fetchReleasesForSource(repo_sources[id], up)
                  IN IF result.threw THEN {}
                     ELSE {result.releases[i] : i \in 1..Len(result.releases)} :
                  up \in {Up(primary, fallback) : primary \in PrimaryAnswers(repo_sources[id]),
                                                  fallback \in FallbackAnswers}} :
           id \in SourceIds \ {sourceId}}

\* C23: no two entries of an adapter's result share an id, no entry shares its id with an
\* entry of another source, and an entry's id is its source id followed by the native
\* release id, or by "commit" and the sha, so that it depends on nothing but the source
\* and the underlying object
IdsUniqueAndStable ==
    (probe # Null /\ ~probe.result.threw)
    => LET releases == probe.result.releases
       IN /\ \A i, j \in 1..Len(releases) : releases[i].id = releases[j].id => i = j
          /\ \A i \in 1..Len(releases) :
                \A other \in EntriesOfOthers(probe.source.id) : releases[i].id # other.id
          /\ \A i \in 1..Len(releases) :
                /\ releases[i].sourceId = probe.source.id
                /\ IF releases[i].kind = "commit"
                   THEN \E k \in 1..Len(Commits) :
                           releases[i].id = <<probe.source.id, "commit">> \o Commits[k].sha
                   ELSE \E native \in NativeReleaseIds :
                           releases[i].id = <<probe.source.id>> \o native

\* C23 witness: the GitHub source fell back to commits that another source can return
\* too, with the same sha under another id
SameShaTwoSources ==
    /\ probe # Null
    /\ probe.source.provider = "github"
    /\ ~probe.result.threw
    /\ \E i \in 1..Len(probe.result.releases) :
          LET a == probe.result.releases[i]
          IN /\ a.kind = "commit"
             /\ \E b \in EntriesOfOthers(probe.source.id) :
                   /\ b.kind = "commit"
                   /\ SubSeq(a.id, 2, Len(a.id)) = SubSeq(b.id, 2, Len(b.id))
                   /\ a.id # b.id

\* step: the aggregation of call r completes
Completes(r) == runs[r].pc = "fetching" /\ runs'[r].pc = "returned"

\* step: call r2, begun while r1 was aggregating the same page, completes after r1
CompletesLast == Completes("r2") /\ runs["r1"].pc # "fetching"

\* step: call r begins for page p while the other call is aggregating p, and finds neither
\* a live cache entry nor a young snapshot
BeginsStale(r, p) ==
    /\ Begins(r, p)
    /\ \E q \in Runs \ {r} : runs[q].pc = "fetching" /\ runs[q].pageId = p
    /\ ~CacheHit(~runs'[r].forceRefresh, cache[p])
    /\ ~SnapshotFresh(~runs'[r].forceRefresh, getChangelogSnapshot(p))

\* C24 as stated: a call that overlaps another aggregates on its own, and the run that
\* completes last leaves its payload in the cache and in the snapshot
LastRunLeavesCacheAndSnapshot ==
    [][/\ \A r \in Runs, p \in Pages :
             BeginsStale(r, p)
             => runs'[r].pc = "fetching" /\ runs'[r].fx.invoked = EnabledOf(p)
       /\ CompletesLast
          => /\ cache'[runs["r2"].pageId] = Entry(runs'["r2"].ret)
             /\ snapshots'[runs["r2"].pageId] = Row(runs'["r2"].ret)]_vars

\* C24: a call that overlaps another aggregates on its own, invoking every enabled source
\* again; the run that completes last leaves its payload in the cache, and in the snapshot
\* when it persists: a last run that degrades leaves the snapshot as it was
LastRunLeavesCache ==
    [][/\ \A r \in Runs, p \in Pages :
             BeginsStale(r, p)
             => runs'[r].pc = "fetching" /\ runs'[r].fx.invoked = EnabledOf(p)
       /\ CompletesLast
          => /\ cache'[runs["r2"].pageId] = Entry(runs'["r2"].ret)
             /\ IF runs'["r2"].path = "degraded"
                THEN snapshots' = snapshots
                ELSE snapshots'[runs["r2"].pageId] = Row(runs'["r2"].ret)]_vars

\* C24 witness: the run that completed last degraded; its payload is in the cache and the
\* snapshot is the one its sibling saved meanwhile
DegradedLastOverSiblingSnapshot ==
    /\ runs["r2"].pc = "returned"
    /\ runs["r2"].path = "degraded"
    /\ runs["r2"].fx.invoked = EnabledOf(runs["r2"].pageId)
    /\ cache[runs["r2"].pageId] # Null
    /\ cache[runs["r2"].pageId].payload = runs["r2"].ret
    /\ getChangelogSnapshot(runs["r2"].pageId) # runs["r2"].persistedSnapshot

\* the sources whose adapter has not returned yet
Awaited(run) == {i \in 1..Len(run.results) : run.results[i].pending}

\* C25: from the moment a run has listed its sources the adapter of each of them has been
\* invoked, whichever of them are still awaited, and the run returns only when none is
\* awaited any more
FanOutFanIn ==
    \A r \in Runs :
        /\ runs[r].fx.listed
           => /\ Len(runs[r].results) = Len(runs[r].sources)
              /\ runs[r].fx.invoked = {runs[r].sources[i].id : i \in 1..Len(runs[r].sources)}
        /\ (runs[r].pc = "returned" /\ runs[r].fx.listed) => Awaited(runs[r]) = {}

\* C25 witness: the adapter of the second source has returned while the first, invoked
\* before it, is still awaited
SecondSettledFirst ==
    \E r \in Runs :
        /\ runs[r].pc = "fetching"
        /\ Awaited(runs[r]) = {1}
        /\ Len(runs[r].results) = 2
        /\ runs[r].fx.invoked = {runs[r].sources[1].id, runs[r].sources[2].id}

\* the error of the adapter was made from the non-2xx response resp (the two requests of
\* an adapter never get the same status in the catalog, unless they get the same answer)
ErrorFrom(resp) ==
    /\ ~resp.threw
    /\ ~ResponseOk(resp)
    /\ probe.result.error # Null
    /\ probe.result.error.kind \in {"api", "apiReturned"}
    /\ probe.result.error.status = resp.status

\* the provider's name with its first letter in upper case
ProviderLabel ==
    [github |-> "Github", gitlab |-> "Gitlab", gitea |-> "Gitea", bitbucket |-> "Bitbucket"]

\* C27 as stated: the message made from a non-2xx response always has the form
\* "<Provider> API <status>: <first 140 characters of the body>"
UniformApiError ==
    probe # Null
    => \A resp \in {probe.up.primary, probe.up.fallback} :
          ErrorFrom(resp)
          => probe.result.error = ApiError("api", ProviderLabel[probe.source.provider],
                                           resp.status, slice(resp.detail, 0, 140))

\* C27: the message made from a non-2xx response is "<Provider> API <status>: <d>", where
\* d is the first 140 characters of the body without the white space around them, unless
\* d is empty: then it is "<Provider> API returned <status>"
ApiErrorForm ==
    probe # Null
    => \A resp \in {probe.up.primary, probe.up.fallback} :
          ErrorFrom(resp)
          => LET d == trim(slice(resp.detail, 0, 140))
             IN /\ probe.result.error.label = ProviderLabel[probe.source.provider]
                /\ Len(d) <= 140
                /\ d # "" => probe.result.error = ApiError("api", probe.result.error.label,
                                                           resp.status, d)
                /\ d = "" => probe.result.error = ApiError("apiReturned", probe.result.error.label,
                                                           resp.status, "")

\* C27 witness: a non-2xx response with a body of white space only gave the message
\* without a detail
BlankBodyMessage ==
    /\ probe # Null
    /\ probe.up.primary.detail = BlankBody
    /\ ErrorFrom(probe.up.primary)
    /\ probe.result.error.kind = "apiReturned"

\* C30 (as claimed): with overlapping runs for one page, a snapshot that holds releases is
\* never replaced by a payload with zero releases and at least one error
GoodSnapshotNeverDestroyed ==
    [][\A p \in Pages :
          (snapshots[p] # Null /\ snapshots[p].payload_json.value.releases # <<>>)
          => ~ /\ snapshots'[p] # Null
               /\ snapshots'[p].payload_json.value.releases = <<>>
               /\ snapshots'[p].payload_json.value.errors # <<>>]_vars

\* the request presents the key in x-api-key, or as a Bearer token
PresentsKey(request, key) ==
    \/ request.xApiKey # NullStr /\ trim(request.xApiKey) = key
    \/ /\ request.authorization # NullStr
       /\ \E scheme \in {"Bearer ", "bearer ", "BEARER "} :
             /\ startsWith(request.authorization, scheme)
             /\ trim(SubSeq(request.authorization, 8, Len(request.authorization))) = key

\* CHANGELOG_API_KEY is set, to more than white space
ApiKeyConfigured(env) == env.CHANGELOG_API_KEY # NullStr /\ trim(env.CHANGELOG_API_KEY) # ""

\* C28: with CHANGELOG_API_KEY configured, a GET /api/changelog request that does not
\* present the key is answered 401 and starts no call: no source is listed or invoked and
\* no cache entry, no snapshot changes, whatever its force parameter
UnauthorizedGetStopsAtRoute ==
    [][(/\ At("GET /api/changelog")
        /\ ApiKeyConfigured(exchange.env)
        /\ ~PresentsKey(exchange.request, trim(exchange.env.CHANGELOG_API_KEY)))
       => /\ exchange' = [exchange EXCEPT !.status = 401]
          /\ UNCHANGED <<cache, snapshots, runs, calls, lastReturn, repo_sources>>]_vars

\* C28 witness: a request with force=1 and the key in the wrong letter case was answered
\* 401 while the page had a cache entry and a snapshot
ForcedGetRefused ==
    /\ exchange # Null
    /\ exchange.route = "GET /api/changelog"
    /\ exchange.status = 401
    /\ exchange.request.force = "1"
    /\ exchange.request.xApiKey = "K3Y"
    /\ exchange.request.authorization = "Basic k3y"
    /\ cache[exchange.request.pageId] # Null
    /\ snapshots[exchange.request.pageId] # Null

\* step: call r, for page p, takes a step
StepOf(r, p) ==
    /\ runs'[r] # runs[r]
    /\ p = IF runs[r].pc = "idle" THEN runs'[r].pageId ELSE runs[r].pageId

\* C26: a run for page p that lists the sources invokes the adapter of exactly the sources
\* that are enabled and belong to p at that moment, and of no other source later; no step
\* of the run changes the cache entry or the snapshot of another page
RunKeepsToItsPage ==
    [][\A r \in Runs, p \in Pages :
          /\ (Begins(r, p) /\ runs'[r].fx.listed) => runs'[r].fx.invoked = EnabledOf(p)
          /\ (runs[r].fx.listed /\ runs'[r].pc # "idle")
             => runs'[r].fx.invoked = runs[r].fx.invoked
          /\ StepOf(r, p)
             => \A q \in Pages \ {p} : cache'[q] = cache[q] /\ snapshots'[q] = snapshots[q]]_vars

\* C26 witness: a run for the default page is aggregating the sources it listed; a source
\* of the page enabled since then, the disabled one and those of the other page are not
\* among them, and the other page has a cache entry and a snapshot
EnabledAfterListing ==
    \E r \in Runs :
        /\ runs[r].pc = "fetching"
        /\ runs[r].pageId = DEFAULT_CHANGELOG_PAGE_ID
        /\ runs[r].fx.invoked = {"s1", "s2"}
        /\ EnabledOf(DEFAULT_CHANGELOG_PAGE_ID) = {"s1", "s2", "s3"}
        /\ EnabledOf("page_infra") # {}
        /\ snapshots["page_infra"] # Null

\* the admin routes that change the source table
MutationRoutes ==
    {"POST /api/admin/sources", "PATCH /api/admin/sources/[id]", "DELETE /api/admin/sources/[id]"}

\* ADMIN_PASSWORD is set, to more than white space
AdminPasswordConfigured(env) == env.ADMIN_PASSWORD # NullStr /\ trim(env.ADMIN_PASSWORD) # ""

\* the cookie is the signed session of the process
ValidSession(env, session) ==
    \E secret \in {IF env.ADMIN_SESSION_SECRET = NullStr
                   THEN "pipeops-admin-session-secret-change-me"
                   ELSE env.ADMIN_SESSION_SECRET} :
        session = "admin.hmac(" \o secret \o ",admin)"

\* C29: with ADMIN_PASSWORD configured, a POST, PATCH or DELETE of a source without a
\* valid session is answered 401 and changes neither the source table nor a cache entry
\* nor a snapshot; with ADMIN_PASSWORD unset no request is answered 401
UnauthenticatedMutationRejected ==
    [][(exchange # Null /\ exchange.status = 0 /\ exchange.route \in MutationRoutes)
       => /\ (/\ AdminPasswordConfigured(exchange.env)
              /\ ~ValidSession(exchange.env, exchange.request.session))
             => /\ exchange' = [exchange EXCEPT !.status = 401]
                /\ UNCHANGED <<repo_sources, cache, snapshots>>
          /\ exchange.env.ADMIN_PASSWORD = NullStr
             => exchange' # Null /\ exchange'.status # 401]_vars

\* C29 witness: a DELETE with a forged cookie of the right length was answered 401; the
\* source is still there, and so is the cache entry of its page
ForgedDeleteRefused ==
    /\ exchange # Null
    /\ exchange.route = "DELETE /api/admin/sources/[id]"
    /\ exchange.status = 401
    /\ exchange.request.session = "admin.hmac(s3creT,admin)"
    /\ repo_sources[exchange.request.id] # Null
    /\ cache[repo_sources[exchange.request.id].pageId] # Null

\* step: call r is the first call since the cache was refreshed, and is not forced
FirstAfterRefresh(r) ==
    /\ refreshed # Null
    /\ refreshed.calls = calls
    /\ runs[r].pc = "idle"
    /\ runs'[r].pc # "idle"
    /\ ~runs'[r].forceRefresh

\* C31 (as claimed): the first non-forced call after an invalidation never returns a payload
\* whose fetchedAt is earlier than the invalidation (which re-aggregating would guarantee)
ReaggregatesAfterInvalidation ==
    [][\A r \in Runs :
          (FirstAfterRefresh(r) /\ runs'[r].pc = "returned")
          => ~(/\ runs'[r].ret.fetchedAt.tag = "iso"
               /\ getTime(runs'[r].ret.fetchedAt) < refreshed.at)]_vars

\* run r listed the sources of its page, and the enabled sources of the page have changed since:
\* a source mutation, and with it invalidateChangelogCache, ran while r was in flight
ListedBeforeInvalidation(r) ==
    /\ runs[r].fx.listed
    /\ runs[r].fx.invoked # EnabledOf(runs[r].pageId)

\* C32 (as claimed): when an invalidation ran while an aggregation of the page was in flight, the
\* page's cache entry does not hold the payload of that aggregation once it has completed
InvalidationOutlivesRun ==
    \A r \in Runs :
        (runs[r].pc = "returned" /\ ListedBeforeInvalidation(r))
        => ~(/\ cache[runs[r].pageId] # Null
             /\ cache[runs[r].pageId].payload = runs[r].ret)

\* C33: with one call at a time, when a call for a page has returned, the page has a cache entry
\* and a persisted snapshot, their releases lists are equal, and the two payloads are equal apart
\* from their errors lists
CacheSnapshotAgreement ==
    \A r \in Runs :
        runs[r].pc = "returned"
        => LET entry == cache[runs[r].pageId]
               snapshot == getChangelogSnapshot(runs[r].pageId)
           IN /\ entry # Null
              /\ snapshot # Null
              /\ entry.payload.releases = snapshot.releases
              /\ [entry.payload EXCEPT !.errors = snapshot.errors] = snapshot

\* C33 witness: a degraded call has returned; its cache entry carries the errors of the run
\* over the releases of the snapshot, whose own errors list is different
DegradedEntryDiffersInErrors ==
    \E r \in Runs :
        /\ runs[r].pc = "returned"
        /\ runs[r].path = "degraded"
        /\ cache[runs[r].pageId].payload.errors # getChangelogSnapshot(runs[r].pageId).errors
        /\ cache[runs[r].pageId].payload.releases # <<>>

\* the retry client has ended its call
Ended == client.pc \in {"returned", "threw", "exhausted"}

\* C34: one counter counts the retries after network exceptions, rate-limit waits and generic
\* backoff (one sleep each); it never exceeds maxRetries, and a call issues at least one and at
\* most maxRetries + 1 requests
RequestBound ==
    client.pc # "idle"
    => /\ client.attempt = Len(client.sleeps)
       /\ client.attempt <= client.maxRetries
       /\ client.requests = Len(client.statuses)
       /\ client.requests = client.attempt + (IF Ended THEN 1 ELSE 0)
       /\ Ended => client.requests >= 1 /\ client.requests <= client.maxRetries + 1

\* C34 witness: a call with two retries ended at its third request, after a network exception
\* and a rate-limit wait
MixedOutcomesUseAllRequests ==
    /\ client.pc = "returned"
    /\ client.maxRetries = 2
    /\ client.requests = 3
    /\ client.statuses[1] = 0
    /\ client.statuses[2] = 429
    /\ client.sleeps[2] = 4000
    /\ client.statuses[3] = 500

\* lines 23-53: a 403 that is not a rate limit, or a rate-limited 403 or 429 without a reset time
FallsThroughToBackoff(response) ==
    /\ ~response.threw
    /\ response.status \in {403, 429}
    /\ ~isRateLimited(response) \/ ~Truthy(response.resetAt)

\* C35: a 403 that is not a rate limit, and a rate-limited 403 or 429 without reset header, is
\* retried after the generic exponential backoff while retries are left, and is returned as the
\* result only when maxRetries retries are spent
ForbiddenBackoff ==
    [][(Received /\ FallsThroughToBackoff(client'.response))
       => IF client.attempt < client.maxRetries
          THEN /\ client'.pc = "loop"
               /\ client'.attempt = client.attempt + 1
               /\ Last(client'.sleeps) >= baseWaitMs * 2 ^ client.attempt
               /\ Last(client'.sleeps) < baseWaitMs * 2 ^ client.attempt + 500
          ELSE /\ client'.pc = "returned"
               /\ client'.result = client'.response
               /\ Len(client'.sleeps) = client.maxRetries]_vars

\* C35 witness: a plain 403, a 429 without reset header and again a plain 403; the third, with
\* both retries spent, is returned
ForbiddenReturnedLast ==
    /\ client.pc = "returned"
    /\ client.maxRetries = 2
    /\ client.statuses = <<403, 429, 403>>
    /\ client.sleeps[1] \in {1500, 1999}
    /\ client.sleeps[2] \in {3000, 3499}
    /\ client.result = HttpResponse(403, "57", NullStr)

\* a request of run r is awaited that will never be answered
Stalled(r) == \E id \in AllIds : runs[r].upstream[id].hung

\* C36 (as claimed): when every request is answered, a call that aggregates eventually
\* returns a payload
EveryCallReturns ==
    runs["r1"].pc = "fetching" ~> (runs["r1"].pc = "returned" \/ Stalled("r1"))

\* C36, what holds instead: the call eventually returns or rejects
EveryCallEnds ==
    runs["r1"].pc = "fetching" ~> (runs["r1"].pc \in {"returned", "threw"} \/ Stalled("r1"))

\* C36, the request bound: in one run a Bitbucket source gets at most maxRetries + 1 requests
\* and any other source at most 2 * (maxRetries + 1)
UpstreamRequestBound ==
    \A r \in Runs : \A i \in 1..Len(runs[r].sources) :
        LET source == runs[r].sources[i]
        IN runs[r].upstream[source.id].requests
              <= IF source.provider = "bitbucket" THEN DefaultMaxRetries + 1
                 ELSE 2 * (DefaultMaxRetries + 1)

\* C36, the stall: a run with a request that is never answered does not return
StalledRunNeverReturns == \A r \in Runs : Stalled(r) => runs[r].pc \in {"fetching", "threw"}

\* a source of a run has had all the requests the bound allows
UpstreamBoundReached ==
    /\ runs["r1"].pc = "returned"
    /\ runs["r1"].upstream["s1"].requests = 2 * (DefaultMaxRetries + 1)

\* C37: a settled adapter result with an error has no releases, and its records are all of one
\* kind and of its own source; in a payload of a fresh aggregation no source is both in releases
\* and in errors, and no source has two errors entries, in whatever order the sources settled
ResultShape ==
    \A r \in Runs :
        /\ \A i \in 1..Len(runs[r].results) :
              LET result == runs[r].results[i]
              IN ~result.pending
                 => /\ result.error # Null => result.releases = <<>>
                    /\ \A j, k \in 1..Len(result.releases) :
                          /\ result.releases[j].kind = result.releases[k].kind
                          /\ result.releases[j].kind \in {"release", "commit"}
                          /\ result.releases[j].sourceId = runs[r].sources[i].id
        /\ (runs[r].pc = "returned" /\ runs[r].path = "fresh")
           => LET payload == runs[r].ret
              IN /\ \A j \in 1..Len(payload.releases), k \in 1..Len(payload.errors) :
                       payload.releases[j].sourceId # payload.errors[k].sourceId
                 /\ \A j, k \in 1..Len(payload.errors) :
                       payload.errors[j].sourceId = payload.errors[k].sourceId => j = k

\* C37 witness: a fresh payload with the commits of the first source, which has no releases,
\* and the error of the second source
CommitsBesideError ==
    /\ runs["r1"].pc = "returned"
    /\ runs["r1"].path = "fresh"
    /\ runs["r1"].ret.errors # <<>>
    /\ runs["r1"].ret.errors[1].sourceId = "s2"
    /\ runs["r1"].ret.releases # <<>>
    /\ runs["r1"].ret.releases[1].kind = "commit"
    /\ runs["r1"].ret.releases[1].sourceId = "s1"

\* the empty payload built at the present time
EmptyPayload == [fetchedAt |-> Iso(now), releases |-> <<>>, errors |-> <<>>]

\* step: the aggregation of run r goes on after every adapter has settled with no releases
\* and no error
ResumesEmpty(r) ==
    /\ runs[r].pc = "fetching"
    /\ runs'[r].pc # "fetching"
    /\ runs[r].errors = <<>>
    /\ \A i \in 1..Len(runs[r].results) :
          ~runs[r].results[i].pending /\ runs[r].results[i].releases = <<>>

\* C38: a run with zero releases and zero errors does not degrade; it returns the empty payload,
\* saves it as the snapshot of the page in place of the one there, and caches it
EmptyRunPersists ==
    [][\A r \in Runs :
          ResumesEmpty(r)
          => /\ runs'[r].pc = "returned"
             /\ runs'[r].path = "fresh"
             /\ runs'[r].ret = EmptyPayload
             /\ snapshots'[runs[r].pageId] = Row(EmptyPayload)
             /\ cache'[runs[r].pageId] = Entry(EmptyPayload)]_vars

\* C38 witness: the empty payload has replaced a snapshot with releases
EmptyOverGoodSnapshot ==
    \E r \in Runs :
        /\ runs[r].pc = "returned"
        /\ runs[r].ret.releases = <<>>
        /\ runs[r].ret.errors = <<>>
        /\ runs[r].persistedSnapshot # Null
        /\ runs[r].persistedSnapshot.releases # <<>>
        /\ runs[r].sources # <<>>
        /\ getChangelogSnapshot(runs[r].pageId).releases = <<>>
        /\ cache[runs[r].pageId].payload.releases = <<>>

\* the default page is there under its path name, and the page of every source is there
ReferentialIntegrity ==
    /\ PageExists(DEFAULT_CHANGELOG_PAGE_ID)
    /\ changelog_pages[DEFAULT_CHANGELOG_PAGE_ID].pathName = DEFAULT_CHANGELOG_PATH_NAME
    /\ \A s \in AllIds : repo_sources[s] # Null => PageExists(repo_sources[s].pageId)

\* step: deleteChangelogPageAction has run for page id
Deletes(id) ==
    /\ exchange = Null
    /\ exchange' # Null
    /\ exchange'.route = "deleteChangelogPageAction"
    /\ exchange'.request.id = id

\* the deletion of the default page or of a page with sources throws and changes no table; any
\* other deletion removes the page and its snapshot and no source
DeleteRule ==
    \A id \in PageIds :
        Deletes(id)
        => IF id = DEFAULT_CHANGELOG_PAGE_ID \/ SourceCount(id) > 0
           THEN /\ exchange'.status = 500
                /\ UNCHANGED <<changelog_pages, repo_sources, snapshots>>
           ELSE /\ exchange'.status = 200
                /\ ~PageExists(id)'
                /\ id \in Pages => snapshots'[id] = Null
                /\ \A p \in PageIds \ {id} : changelog_pages'[p] = changelog_pages[p]
                /\ \A p \in Pages \ {id} : snapshots'[p] = snapshots[p]
                /\ UNCHANGED repo_sources

\* C39: after every sequence of page and source actions the default page exists under its
\* path name and every source belongs to an existing page; deleting the default page or a page
\* with sources fails without a change, and a deletion that succeeds removes the page's snapshot
PageIntegrity == []ReferentialIntegrity /\ [][DeleteRule]_vars

\* C39 witness: after a call for its changelog the page page_infra has been deleted, with its
\* snapshot, its source having been moved to a page created in the meantime
PageDeletedAfterReassignment ==
    /\ exchange # Null
    /\ exchange.route = "deleteChangelogPageAction"
    /\ exchange.status = 200
    /\ ~PageExists("page_infra")
    /\ snapshots["page_infra"] = Null
    /\ calls > 0
    /\ repo_sources["s4"] # Null
    /\ repo_sources["s4"].pageId = "page_docs"
    /\ changelog_pages["page_docs"].pathName = "team-docs"

====
